---------------------------- MODULE Spec2Model ----------------------------
(***************************************************************************)
(* A model of the position core of Allie Chess (src/lib/game.cpp): the     *)
(* Game value type with its bitboards, castle rights, en-passant target    *)
(* and clocks; FEN parsing and emission; makeMove (fillOutMove and         *)
(* processMove); pseudo-legal move generation; isChecked and isCastleLegal.*)
(*                                                                         *)
(* A BitBoard is modelled as the set of the squares whose bit is set, a    *)
(* Square as its data byte (file + 8 * rank, 64 for the invalid square),   *)
(* a QString as the sequence of its characters.                            *)
(***************************************************************************)
EXTENDS Integers, Sequences, FiniteSets, TLC

(***************************************************************************)
(* Bounds of the model.                                                    *)
(***************************************************************************)
\* makeMove calls explored after each construction
MaxPlies == 2
\* isChecked and stateOfGameToFen calls explored between two moves
MaxQueries == 1
\* makeMove calls explored after the History was cleared
MaxHistoryPlies == 9

(***************************************************************************)
(* Square (square.h, exercised by TestGames::testBasicStructures).         *)
(***************************************************************************)
InvalidSquare == 64

Squares == 0..63

Files == 0..7

isValid(sq) == sq \in Squares

file(sq) == sq % 8

rank(sq) == sq \div 8

\* Square(file, rank): out-of-range coordinates give the invalid square
Square(f, r) == IF f \in Files /\ r \in Files THEN f + 8 * r ELSE InvalidSquare

qAbs(x) == IF x < 0 THEN -x ELSE x

White == "White"

Black == "Black"

Armies == {White, Black}

KingSide == "KingSide"

QueenSide == "QueenSide"

Castles == {KingSide, QueenSide}

Pawn == "Pawn"

Knight == "Knight"

Bishop == "Bishop"

Rook == "Rook"

Queen == "Queen"

King == "King"

Unknown == "Unknown"

PieceTypes == {Pawn, Knight, Bishop, Rook, Queen, King}

otherArmy(army) == IF army = White THEN Black ELSE White

homeRank(army) == IF army = White THEN 0 ELSE 7

(***************************************************************************)
(* Move (move.h): a packed record; a default move has invalid squares,     *)
(* unknown piece and promotion, no flag set and castle side KingSide.      *)
(***************************************************************************)
NullMove ==
    [start |-> InvalidSquare, end |-> InvalidSquare, piece |-> Unknown,
     promotion |-> Unknown, capture |-> FALSE, check |-> FALSE,
     checkMate |-> FALSE, staleMate |-> FALSE, enPassant |-> FALSE,
     castle |-> FALSE, castleSide |-> KingSide]

moveIsValid(mv) == isValid(mv.start) /\ isValid(mv.end)

(***************************************************************************)
(* Movegen (movegen.h): the attack tables.  Leaper tables are indexed by   *)
(* the from-square; sliding attacks extend along each ray up to and        *)
(* including the first blocker; friendly occupancy is subtracted.          *)
(***************************************************************************)
KingSteps ==
    {<<-1, -1>>, <<-1, 0>>, <<-1, 1>>, <<0, -1>>, <<0, 1>>, <<1, -1>>, <<1, 0>>, <<1, 1>>}

KnightSteps ==
    {<<-2, -1>>, <<-2, 1>>, <<-1, -2>>, <<-1, 2>>, <<1, -2>>, <<1, 2>>, <<2, -1>>, <<2, 1>>}

RookDirs == {<<-1, 0>>, <<1, 0>>, <<0, -1>>, <<0, 1>>}

BishopDirs == {<<-1, -1>>, <<-1, 1>>, <<1, -1>>, <<1, 1>>}

LeaperTable(steps) ==
    [sq \in Squares |->
        {Square(file(sq) + d[1], rank(sq) + d[2]) : d \in steps} \ {InvalidSquare}]

KingTable == LeaperTable(KingSteps)

KnightTable == LeaperTable(KnightSteps)

\* the squares of the ray that leaves sq in direction d, nearest first
RayTable ==
    [sq \in Squares |->
        [d \in RookDirs \cup BishopDirs |->
            [k \in 1..Cardinality({j \in 1..7 :
                        isValid(Square(file(sq) + j * d[1], rank(sq) + j * d[2]))}) |->
                Square(file(sq) + k * d[1], rank(sq) + k * d[2])]]]

\* the ray up to and including the first occupied square
RayAttack(sq, d, occupied) ==
    LET ray == RayTable[sq][d]
    IN  {ray[k] : k \in {k \in DOMAIN ray : \A j \in 1..(k - 1) : ray[j] \notin occupied}}

SlideAttack(sq, dirs, occupied) == UNION {RayAttack(sq, d, occupied) : d \in dirs}

\* pawn advances by table: one step, and two steps from the pawn's home rank
PawnMoveTable ==
    [army \in Armies |->
        [sq \in Squares |->
            LET dir == IF army = White THEN 1 ELSE -1
                home == IF army = White THEN 1 ELSE 6
            IN  ({Square(file(sq), rank(sq) + dir)}
                 \cup (IF rank(sq) = home
                       THEN {Square(file(sq), rank(sq) + 2 * dir)} ELSE {}))
                \ {InvalidSquare}]]

\* pawn captures by table: the two squares diagonally ahead
PawnAttackTable ==
    [army \in Armies |->
        [sq \in Squares |->
            LET dir == IF army = White THEN 1 ELSE -1
            IN  {Square(file(sq) - 1, rank(sq) + dir),
                 Square(file(sq) + 1, rank(sq) + dir)} \ {InvalidSquare}]]

kingMoves(sq, friends, enemies) == KingTable[sq] \ friends

knightMoves(sq, friends, enemies) == KnightTable[sq] \ friends

rookMoves(sq, friends, enemies) ==
    SlideAttack(sq, RookDirs, friends \cup enemies) \ friends

bishopMoves(sq, friends, enemies) ==
    SlideAttack(sq, BishopDirs, friends \cup enemies) \ friends

queenMoves(sq, friends, enemies) ==
    rookMoves(sq, friends, enemies) \cup bishopMoves(sq, friends, enemies)

\* the Movegen call Game makes for a piece of a kind other than the pawn
movesOf(piece, sq, friends, enemies) ==
    CASE piece = King -> kingMoves(sq, friends, enemies)
      [] piece = Queen -> queenMoves(sq, friends, enemies)
      [] piece = Rook -> rookMoves(sq, friends, enemies)
      [] piece = Bishop -> bishopMoves(sq, friends, enemies)
      [] piece = Knight -> knightMoves(sq, friends, enemies)

\* a push needs an empty target; the square jumped over by a double push is
\* checked by the caller (Game::pseudoLegalMoves)
pawnMoves(army, sq, friends, enemies) ==
    PawnMoveTable[army][sq] \ (friends \cup enemies)

\* a pawn attacks only the squares an enemy (or the en-passant target passed
\* in as one) stands on
pawnAttacks(army, sq, friends, enemies) == PawnAttackTable[army][sq] \cap enemies

(***************************************************************************)
(* Game (game.h, game.cpp): the position.                                  *)
(***************************************************************************)
\* board(army)
armyBoard(g, army) == IF army = White THEN g.whitePositionBoard ELSE g.blackPositionBoard

\* board(piece)
pieceBoard(g, piece) ==
    CASE piece = King -> g.kingsBoard
      [] piece = Queen -> g.queensBoard
      [] piece = Rook -> g.rooksBoard
      [] piece = Bishop -> g.bishopsBoard
      [] piece = Knight -> g.knightsBoard
      [] piece = Pawn -> g.pawnsBoard
      [] OTHER -> {}

hasPieceAt(g, index, army) == index \in armyBoard(g, army)

pieceTypeAt(g, index) ==
    LET colours == g.whitePositionBoard \cup g.blackPositionBoard
        at(type) == index \in (pieceBoard(g, type) \cap colours)
    IN  CASE at(Pawn) -> Pawn
          [] at(Knight) -> Knight
          [] at(Bishop) -> Bishop
          [] at(Rook) -> Rook
          [] at(Queen) -> Queen
          [] at(King) -> King
          [] OTHER -> Unknown

isCastleAvailable(g, army, castle) ==
    IF army = White
    THEN (IF castle = KingSide THEN g.hasWhiteKingCastle ELSE g.hasWhiteQueenCastle)
    ELSE (IF castle = KingSide THEN g.hasBlackKingCastle ELSE g.hasBlackQueenCastle)

\* BitBoard::setBit(index, bit)
setBit(b, index, bit) == IF bit THEN b \cup {index} ELSE b \ {index}

\* togglePieceAt(index, army, piece, bit): sets or clears the bit of the
\* army's board and of the piece kind's board
togglePieceAt(g, index, army, piece, bit) ==
    LET c == IF army = White
             THEN [g EXCEPT !.whitePositionBoard = setBit(@, index, bit)]
             ELSE [g EXCEPT !.blackPositionBoard = setBit(@, index, bit)]
    IN  CASE piece = King -> [c EXCEPT !.kingsBoard = setBit(@, index, bit)]
          [] piece = Queen -> [c EXCEPT !.queensBoard = setBit(@, index, bit)]
          [] piece = Rook -> [c EXCEPT !.rooksBoard = setBit(@, index, bit)]
          [] piece = Bishop -> [c EXCEPT !.bishopsBoard = setBit(@, index, bit)]
          [] piece = Knight -> [c EXCEPT !.knightsBoard = setBit(@, index, bit)]
          [] piece = Pawn -> [c EXCEPT !.pawnsBoard = setBit(@, index, bit)]
          [] OTHER -> c

\* clearCastle with the slip of forgetting the rook's file with the right
clearCastleForgetsFile(g, army, castle) ==
    LET forgotten == IF castle = KingSide THEN [g EXCEPT !.fileOfKingsRook = 0]
                     ELSE [g EXCEPT !.fileOfQueensRook = 0]
    IN  IF army = White
        THEN (IF castle = KingSide THEN [forgotten EXCEPT !.hasWhiteKingCastle = FALSE]
                                   ELSE [forgotten EXCEPT !.hasWhiteQueenCastle = FALSE])
        ELSE (IF castle = KingSide THEN [forgotten EXCEPT !.hasBlackKingCastle = FALSE]
                                   ELSE [forgotten EXCEPT !.hasBlackQueenCastle = FALSE])

\* clearCastle with the slip of flipping the right
clearCastleFlips(g, army, castle) ==
    IF army = White
    THEN (IF castle = KingSide THEN [g EXCEPT !.hasWhiteKingCastle = ~@]
                               ELSE [g EXCEPT !.hasWhiteQueenCastle = ~@])
    ELSE (IF castle = KingSide THEN [g EXCEPT !.hasBlackKingCastle = ~@]
                               ELSE [g EXCEPT !.hasBlackQueenCastle = ~@])

\* the army's castle right of a side set to FALSE
clearCastle(g, army, castle) ==
    IF army = White
    THEN (IF castle = KingSide THEN [g EXCEPT !.hasWhiteKingCastle = FALSE]
                               ELSE [g EXCEPT !.hasWhiteQueenCastle = FALSE])
    ELSE (IF castle = KingSide THEN [g EXCEPT !.hasBlackKingCastle = FALSE]
                               ELSE [g EXCEPT !.hasBlackQueenCastle = FALSE])

\* processRights with the slip of clearing both rights when a castling rook
\* moves
processRightsRookClearsBoth(g, army, move) ==
    LET home == homeRank(army)
        behind == IF army = White THEN rank(move.end) - 1 ELSE rank(move.end) + 1
        both == clearCastle(clearCastle(g, army, KingSide), army, QueenSide)
    IN  IF move.piece = King THEN both
        ELSE IF move.piece = Rook
        THEN (IF move.start \in {Square(g.fileOfQueensRook, home),
                                 Square(g.fileOfKingsRook, home)}
              THEN both ELSE g)
        ELSE IF move.piece = Pawn /\ qAbs(rank(move.start) - rank(move.end)) = 2
        THEN [g EXCEPT !.enPassantTarget = Square(file(move.end), behind)]
        ELSE g

\* processRights with the slip of taking the pawn's end square for the
\* en-passant target
processRightsTargetOnEnd(g, army, move) ==
    LET home == homeRank(army)
    IN  IF move.piece = King
        THEN clearCastle(clearCastle(g, army, KingSide), army, QueenSide)
        ELSE IF move.piece = Rook
        THEN (IF move.start = Square(g.fileOfQueensRook, home)
              THEN clearCastle(g, army, QueenSide)
              ELSE IF move.start = Square(g.fileOfKingsRook, home)
              THEN clearCastle(g, army, KingSide)
              ELSE g)
        ELSE IF move.piece = Pawn /\ qAbs(rank(move.start) - rank(move.end)) = 2
        THEN [g EXCEPT !.enPassantTarget = move.end]
        ELSE g

\* processMove, first part: the mover's castle rights and the en-passant
\* target (the two armies differ in the home rank and the pawn's direction)
processRights(g, army, move) ==
    LET home == homeRank(army)
        behind == IF army = White THEN rank(move.end) - 1 ELSE rank(move.end) + 1
    IN  IF move.piece = King
        THEN clearCastle(clearCastle(g, army, KingSide), army, QueenSide)
        ELSE IF move.piece = Rook
        THEN (IF move.start = Square(g.fileOfQueensRook, home)
              THEN clearCastle(g, army, QueenSide)
              ELSE IF move.start = Square(g.fileOfKingsRook, home)
              THEN clearCastle(g, army, KingSide)
              ELSE g)
        ELSE IF move.piece = Pawn /\ qAbs(rank(move.start) - rank(move.end)) = 2
        THEN [g EXCEPT !.enPassantTarget = Square(file(move.end), behind)]
        ELSE g

\* processMove, second part: whether the move captures
isCaptureMove(g, army, move) ==
    hasPieceAt(g, move.end, otherArmy(army)) \/ move.enPassant

\* processCapture with the slip of flagging the capture but leaving the
\* captured piece on the board
processCaptureKeepsCaptured(g, army, move) ==
    IF ~isCaptureMove(g, army, move) THEN g
    ELSE [g EXCEPT !.lastMove.capture = TRUE]

\* processCapture with the slip of taking the captured piece off its army's
\* board only, not off the board of its kind
processCaptureKeepsKind(g, army, move) ==
    LET enemy == otherArmy(army)
        behind == IF army = White THEN rank(move.end) - 1 ELSE rank(move.end) + 1
        capturedPieceIndex ==
            IF move.enPassant THEN Square(file(move.end), behind) ELSE move.end
        type == pieceTypeAt(g, capturedPieceIndex)
        flagged == [g EXCEPT !.lastMove.capture = TRUE]
        taken == IF enemy = White
                 THEN [flagged EXCEPT !.whitePositionBoard = @ \ {capturedPieceIndex}]
                 ELSE [flagged EXCEPT !.blackPositionBoard = @ \ {capturedPieceIndex}]
    IN  IF ~isCaptureMove(g, army, move) THEN g
        ELSE IF type = Rook
        THEN (IF file(move.end) = g.fileOfKingsRook
              THEN clearCastle(taken, enemy, KingSide)
              ELSE clearCastle(taken, enemy, QueenSide))
        ELSE taken

\* processCapture with the slip of taking the piece on the end square for an
\* en-passant capture too
processCaptureTakesEnd(g, army, move) ==
    LET enemy == otherArmy(army)
        type == pieceTypeAt(g, move.end)
        flagged == [g EXCEPT !.lastMove.capture = TRUE]
        taken == togglePieceAt(flagged, move.end, enemy, type, FALSE)
    IN  IF ~isCaptureMove(g, army, move) THEN g
        ELSE IF type = Rook
        THEN (IF file(move.end) = g.fileOfKingsRook
              THEN clearCastle(taken, enemy, KingSide)
              ELSE clearCastle(taken, enemy, QueenSide))
        ELSE taken

\* processMove, second part: the captured piece removed, the capture flag set
\* and the opponent's castle right cleared when a rook is taken
processCapture(g, army, move) ==
    LET enemy == otherArmy(army)
        behind == IF army = White THEN rank(move.end) - 1 ELSE rank(move.end) + 1
        capturedPieceIndex ==
            IF move.enPassant THEN Square(file(move.end), behind) ELSE move.end
        type == pieceTypeAt(g, capturedPieceIndex)
        flagged == [g EXCEPT !.lastMove.capture = TRUE]
        taken == togglePieceAt(flagged, capturedPieceIndex, enemy, type, FALSE)
    IN  IF ~isCaptureMove(g, army, move) THEN g
        ELSE IF type = Rook
        THEN (IF file(move.end) = g.fileOfKingsRook
              THEN clearCastle(taken, enemy, KingSide)
              ELSE clearCastle(taken, enemy, QueenSide))
        ELSE taken

\* processClock with the slip of resetting the clock for pawn moves only
processClockPawnOnly(g, move, capture) ==
    IF move.piece # Pawn
    THEN [g EXCEPT !.halfMoveClock = (@ + 1) % 65536]
    ELSE [g EXCEPT !.halfMoveClock = 0]

\* processMove, third part: the half-move clock (a 16-bit counter)
processClock(g, move, capture) ==
    IF move.piece # Pawn /\ ~capture
    THEN [g EXCEPT !.halfMoveClock = (@ + 1) % 65536]
    ELSE [g EXCEPT !.halfMoveClock = 0]

\* processPlacement with the slip of lifting the mover from its start square
\* only when the move is not a castle
processPlacementKeepsKing(g, army, move) ==
    LET home == homeRank(army)
        lifted == togglePieceAt(g, move.start, army, move.piece, FALSE)
        rookFile == IF move.castleSide = KingSide
                    THEN g.fileOfKingsRook ELSE g.fileOfQueensRook
        rookTo == IF move.castleSide = KingSide THEN 5 ELSE 3
        kingTo == IF move.castleSide = KingSide THEN 6 ELSE 2
        noRook == togglePieceAt(g, Square(rookFile, home), army, Rook, FALSE)
        rookSet == togglePieceAt(noRook, Square(rookTo, home), army, Rook, TRUE)
    IN  IF move.castle
        THEN togglePieceAt(rookSet, Square(kingTo, home), army, King, TRUE)
        ELSE IF move.promotion # Unknown
        THEN togglePieceAt(lifted, move.end, army, move.promotion, TRUE)
        ELSE togglePieceAt(lifted, move.end, army, move.piece, TRUE)

\* processPlacement with the slip of setting the rook down before the king
\* and the castling rook are lifted, so that lifting them clears it again
\* when the rook's destination is the source of one of them
processPlacementRookFirst(g, army, move) ==
    LET home == homeRank(army)
        lifted == togglePieceAt(g, move.start, army, move.piece, FALSE)
        rookFile == IF move.castleSide = KingSide
                    THEN g.fileOfKingsRook ELSE g.fileOfQueensRook
        rookTo == IF move.castleSide = KingSide THEN 5 ELSE 3
        kingTo == IF move.castleSide = KingSide THEN 6 ELSE 2
        rookSet == togglePieceAt(g, Square(rookTo, home), army, Rook, TRUE)
        kingSet == togglePieceAt(rookSet, Square(kingTo, home), army, King, TRUE)
        noKing == togglePieceAt(kingSet, move.start, army, King, FALSE)
    IN  IF move.castle
        THEN togglePieceAt(noKing, Square(rookFile, home), army, Rook, FALSE)
        ELSE IF move.promotion # Unknown
        THEN togglePieceAt(lifted, move.end, army, move.promotion, TRUE)
        ELSE togglePieceAt(lifted, move.end, army, move.piece, TRUE)

\* processPlacement with the slip of setting the pawn itself on the last rank
processPlacementKeepsPawn(g, army, move) ==
    LET home == homeRank(army)
        lifted == togglePieceAt(g, move.start, army, move.piece, FALSE)
        rookFile == IF move.castleSide = KingSide
                    THEN g.fileOfKingsRook ELSE g.fileOfQueensRook
        rookTo == IF move.castleSide = KingSide THEN 5 ELSE 3
        kingTo == IF move.castleSide = KingSide THEN 6 ELSE 2
        noRook == togglePieceAt(lifted, Square(rookFile, home), army, Rook, FALSE)
        rookSet == togglePieceAt(noRook, Square(rookTo, home), army, Rook, TRUE)
    IN  IF move.castle
        THEN togglePieceAt(rookSet, Square(kingTo, home), army, King, TRUE)
        ELSE togglePieceAt(lifted, move.end, army, move.piece, TRUE)

\* processMove, fourth part: the mover leaves its start square and arrives;
\* a castle moves the chosen rook too, a promotion places the promoted kind
processPlacement(g, army, move) ==
    LET home == homeRank(army)
        lifted == togglePieceAt(g, move.start, army, move.piece, FALSE)
        rookFile == IF move.castleSide = KingSide
                    THEN g.fileOfKingsRook ELSE g.fileOfQueensRook
        rookTo == IF move.castleSide = KingSide THEN 5 ELSE 3
        kingTo == IF move.castleSide = KingSide THEN 6 ELSE 2
        noRook == togglePieceAt(lifted, Square(rookFile, home), army, Rook, FALSE)
        rookSet == togglePieceAt(noRook, Square(rookTo, home), army, Rook, TRUE)
    IN  IF move.castle
        THEN togglePieceAt(rookSet, Square(kingTo, home), army, King, TRUE)
        ELSE IF move.promotion # Unknown
        THEN togglePieceAt(lifted, move.end, army, move.promotion, TRUE)
        ELSE togglePieceAt(lifted, move.end, army, move.piece, TRUE)

\* processMove with the slip of counting the half moves of White only
processMoveCountsWhite(g, army, move) ==
    LET g0 == [g EXCEPT !.lastMove = move, !.enPassantTarget = InvalidSquare]
        g1 == processRights(g0, army, move)
        capture == isCaptureMove(g1, army, move)
        g2 == processCapture(g1, army, move)
        g3 == processClock(g2, move, capture)
        g4 == processPlacement(g3, army, move)
    IN  [g4 EXCEPT !.repetitions = -1,
                   !.halfMoveNumber = IF army = White THEN (@ + 1) % 65536 ELSE @,
                   !.activeArmy = otherArmy(@)]

\* processMove: the rights, the capture, the clock and the placement, then
\* the cached repetitions cleared, the half move counted and the turn passed
processMove(g, army, move) ==
    LET g0 == [g EXCEPT !.lastMove = move, !.enPassantTarget = InvalidSquare]
        g1 == processRights(g0, army, move)
        capture == isCaptureMove(g1, army, move)
        g2 == processCapture(g1, army, move)
        g3 == processClock(g2, move, capture)
        g4 == processPlacement(g3, army, move)
    IN  [g4 EXCEPT !.repetitions = -1,
                   !.halfMoveNumber = (@ + 1) % 65536,
                   !.activeArmy = otherArmy(@)]

\* fillOutStart: finds no start square by itself; it succeeds only when the
\* start square is already valid
fillOutStart(g, army, move) == moveIsValid(move) /\ isValid(move.start)

\* fillOutMove, last part: a king move along a back rank from file 4 to file
\* 6 or 2 is a castle; with UCI_Chess960, so is a king move onto a rook of its
\* own army that stands on a castling rook's file
fillOutCastle(g, army, move, isChess960) ==
    LET rankStart == rank(move.start)
        rankEnd == rank(move.end)
        fileStart == file(move.start)
        fileEnd == file(move.end)
    IN  IF ~(move.piece = King /\ ~move.castle) THEN move
        ELSE IF ~((rankStart = 0 /\ rankEnd = 0) \/ (rankStart = 7 /\ rankEnd = 7))
        THEN move
        ELSE IF fileStart = 4 /\ fileEnd = 6
        THEN [move EXCEPT !.castleSide = KingSide, !.castle = TRUE]
        ELSE IF fileStart = 4 /\ fileEnd = 2
        THEN [move EXCEPT !.castle = TRUE, !.castleSide = QueenSide]
        ELSE IF isChess960 /\ move.end \in (armyBoard(g, army) \cap g.rooksBoard)
        THEN (IF fileEnd = g.fileOfKingsRook
              THEN [move EXCEPT !.castleSide = KingSide, !.castle = TRUE]
              ELSE IF fileEnd = g.fileOfQueensRook
              THEN [move EXCEPT !.castleSide = QueenSide, !.castle = TRUE]
              ELSE move)
        ELSE move

\* the moves for which fillOutMove runs into its Q_UNREACHABLE: with
\* UCI_Chess960, a king move along a back rank onto a rook of its own army
\* that stands on neither castling rook's file
fillOutMoveUnreachable(g, army, move, isChess960) ==
    LET piece == IF move.piece = Unknown /\ isValid(move.start)
                 THEN pieceTypeAt(g, move.start) ELSE move.piece
    IN  /\ moveIsValid(move)
        /\ piece = King /\ ~move.castle
        /\ rank(move.start) = rank(move.end) /\ rank(move.start) \in {0, 7}
        /\ ~(file(move.start) = 4 /\ file(move.end) \in {6, 2})
        /\ isChess960 /\ move.end \in (armyBoard(g, army) \cap g.rooksBoard)
        /\ file(move.end) \notin {g.fileOfKingsRook, g.fileOfQueensRook}

\* fillOutMove: [ok, move], the move with its unknown fields filled in
fillOutMove(g, army, move, isChess960) ==
    LET home == homeRank(army)
        m1 == IF move.castle /\ ~moveIsValid(move)
              THEN [move EXCEPT !.end = Square(IF move.castleSide = KingSide
                                               THEN 6 ELSE 2, home)]
              ELSE move
        m2 == IF m1.piece = Unknown
              THEN [m1 EXCEPT !.piece = pieceTypeAt(g, m1.start)] ELSE m1
        m3 == IF /\ m2.piece = Pawn /\ m2.promotion = Unknown
                 /\ \/ (army = White /\ rank(m2.end) = 7)
                    \/ (army = Black /\ rank(m2.end) = 0)
              THEN [m2 EXCEPT !.promotion = Queen] ELSE m2
        m4 == IF m3.piece = Pawn /\ m3.end = g.enPassantTarget
              THEN [m3 EXCEPT !.enPassant = TRUE] ELSE m3
    IN  IF ~moveIsValid(m1) THEN [ok |-> FALSE, move |-> m1]
        ELSE IF m2.piece = Unknown THEN [ok |-> FALSE, move |-> m2]
        ELSE IF ~isValid(m2.start) /\ ~fillOutStart(g, army, m2)
        THEN [ok |-> FALSE, move |-> m2]
        ELSE [ok |-> TRUE, move |-> fillOutCastle(g, army, m4, isChess960)]

\* makeMove with the slip of recording the move as the last move before it
\* is known to be well formed
makeMoveRecordsFirst(g, move, isChess960) ==
    LET filled == fillOutMove(g, g.activeArmy, move, isChess960)
    IN  IF ~filled.ok THEN [ok |-> FALSE, game |-> [g EXCEPT !.lastMove = move]]
        ELSE [ok |-> TRUE, game |-> processMove(g, g.activeArmy, filled.move)]

\* makeMove: [ok, game]; the position is processed only when the move could
\* be filled out
makeMove(g, move, isChess960) ==
    LET filled == fillOutMove(g, g.activeArmy, move, isChess960)
    IN  IF ~filled.ok THEN [ok |-> FALSE, game |-> g]
        ELSE [ok |-> TRUE, game |-> processMove(g, g.activeArmy, filled.move)]

(***************************************************************************)
(* Attack boards, isChecked and isCastleLegal.                             *)
(***************************************************************************)
\* the union of the Movegen moves of the army's pieces of a kind
attackBoard(g, army, piece) ==
    LET friends == armyBoard(g, army)
        enemies == armyBoard(g, otherArmy(army))
    IN  UNION {movesOf(piece, sq, friends, enemies) : sq \in friends \cap pieceBoard(g, piece)}

kingAttackBoard(g, army) == attackBoard(g, army, King)

queenAttackBoard(g, army) == attackBoard(g, army, Queen)

rookAttackBoard(g, army) == attackBoard(g, army, Rook)

bishopAttackBoard(g, army) == attackBoard(g, army, Bishop)

knightAttackBoard(g, army) == attackBoard(g, army, Knight)

pawnAttackBoard(g, army) ==
    LET friends == armyBoard(g, army)
        enemies == armyBoard(g, otherArmy(army))
        enemiesPlusEnpassant ==
            IF isValid(g.enPassantTarget) THEN enemies \cup {g.enPassantTarget} ELSE enemies
    IN  UNION {pawnAttacks(army, sq, friends, enemiesPlusEnpassant) :
                    sq \in friends \cap g.pawnsBoard}

\* checkedBy with the slip of leaving the pawns out
checkedByPiecesOnly(g, army) ==
    LET enemies == otherArmy(army)
        kingBoard == armyBoard(g, army) \cap g.kingsBoard
    IN  \/ kingBoard \cap queenAttackBoard(g, enemies) # {}
        \/ kingBoard \cap rookAttackBoard(g, enemies) # {}
        \/ kingBoard \cap bishopAttackBoard(g, enemies) # {}
        \/ kingBoard \cap knightAttackBoard(g, enemies) # {}
        \/ kingBoard \cap kingAttackBoard(g, enemies) # {}

\* the value isChecked returns
checkedBy(g, army) ==
    LET enemies == otherArmy(army)
        kingBoard == armyBoard(g, army) \cap g.kingsBoard
    IN  \/ kingBoard \cap queenAttackBoard(g, enemies) # {}
        \/ kingBoard \cap rookAttackBoard(g, enemies) # {}
        \/ kingBoard \cap bishopAttackBoard(g, enemies) # {}
        \/ kingBoard \cap knightAttackBoard(g, enemies) # {}
        \/ kingBoard \cap kingAttackBoard(g, enemies) # {}
        \/ kingBoard \cap pawnAttackBoard(g, enemies) # {}

\* isChecked with the slip of not recording its answer
isCheckedKeepsFlag(g, army) ==
    [ret |-> checkedBy(g, army), game |-> g]

\* isChecked: [ret, game]; it records its answer in lastMove.check
isChecked(g, army) ==
    LET ret == checkedBy(g, army)
    IN  [ret |-> ret, game |-> [g EXCEPT !.lastMove.check = ret]]

boardBetweenOnSameRank(a, b, inclusive) ==
    LET files == qAbs(file(a) - file(b)) - 1
        start == (IF file(a) < file(b) THEN file(a) ELSE file(b)) + 1
    IN  (IF inclusive THEN {a, b} ELSE {})
        \cup {Square(f, rank(a)) : f \in start..(start + files - 1)}

\* the smallest element of a non-empty set of squares (occupiedSquares().first())
first(b) == CHOOSE sq \in b : \A other \in b : sq <= other

\* isCastleLegal reads the first square of the army's king board, which is
\* defined only when the army has a king
isCastleLegalDefined(g, army, castle) ==
    LET rookBoard == {Square(IF castle = KingSide THEN g.fileOfKingsRook
                             ELSE g.fileOfQueensRook, homeRank(army))}
                        \cap g.rooksBoard \cap armyBoard(g, army)
    IN  (isCastleAvailable(g, army, castle) /\ rookBoard # {})
            => (g.kingsBoard \cap armyBoard(g, army) # {})

\* isCastleLegal with the slip of not asking isCastleAvailable
isCastleLegalIgnoringRights(g, army, castle) ==
    LET rookBoard == {Square(IF castle = KingSide THEN g.fileOfKingsRook
                             ELSE g.fileOfQueensRook, homeRank(army))}
                        \cap g.rooksBoard \cap armyBoard(g, army)
        kingBoard == g.kingsBoard \cap armyBoard(g, army)
    IN  IF rookBoard = {} THEN FALSE
        ELSE IF kingBoard = {} THEN FALSE
        ELSE
        LET chosenRook == first(rookBoard)
            king == first(kingBoard)
            pieces == g.whitePositionBoard \cup g.blackPositionBoard
            between == boardBetweenOnSameRank(king, chosenRook, FALSE) \cap pieces
            kingTo == Square(IF castle = KingSide THEN 6 ELSE 2, rank(king))
            kingMovesThrough == boardBetweenOnSameRank(king, kingTo, TRUE)
            rookTo == Square(IF castle = KingSide THEN 5 ELSE 3, rank(chosenRook))
            rookMovesThrough == boardBetweenOnSameRank(chosenRook, rookTo, TRUE)
            through == kingMovesThrough \cup rookMovesThrough
            xorRook == (through \ rookBoard) \cup (rookBoard \ through)
            xorKing == (xorRook \ kingBoard) \cup (kingBoard \ xorRook)
            throughMinusKAndR == xorKing \cap pieces
            attackArmy == otherArmy(army)
            atb == kingAttackBoard(g, attackArmy) \cup queenAttackBoard(g, attackArmy)
                   \cup rookAttackBoard(g, attackArmy) \cup bishopAttackBoard(g, attackArmy)
                   \cup knightAttackBoard(g, attackArmy) \cup pawnAttackBoard(g, attackArmy)
        IN  IF between # {} THEN FALSE
            ELSE IF throughMinusKAndR # {} THEN FALSE
            ELSE IF kingMovesThrough \cap atb # {} THEN FALSE
            ELSE TRUE

\* isCastleLegal with the slip of asking that the rook's squares be safe too
isCastleLegalRookPathSafe(g, army, castle) ==
    LET rookBoard == {Square(IF castle = KingSide THEN g.fileOfKingsRook
                             ELSE g.fileOfQueensRook, homeRank(army))}
                        \cap g.rooksBoard \cap armyBoard(g, army)
        kingBoard == g.kingsBoard \cap armyBoard(g, army)
    IN  IF ~isCastleAvailable(g, army, castle) THEN FALSE
        ELSE IF rookBoard = {} THEN FALSE
        ELSE IF kingBoard = {} THEN FALSE
        ELSE
        LET chosenRook == first(rookBoard)
            king == first(kingBoard)
            pieces == g.whitePositionBoard \cup g.blackPositionBoard
            between == boardBetweenOnSameRank(king, chosenRook, FALSE) \cap pieces
            kingTo == Square(IF castle = KingSide THEN 6 ELSE 2, rank(king))
            kingMovesThrough == boardBetweenOnSameRank(king, kingTo, TRUE)
            rookTo == Square(IF castle = KingSide THEN 5 ELSE 3, rank(chosenRook))
            rookMovesThrough == boardBetweenOnSameRank(chosenRook, rookTo, TRUE)
            through == kingMovesThrough \cup rookMovesThrough
            xorRook == (through \ rookBoard) \cup (rookBoard \ through)
            xorKing == (xorRook \ kingBoard) \cup (kingBoard \ xorRook)
            throughMinusKAndR == xorKing \cap pieces
            attackArmy == otherArmy(army)
            atb == kingAttackBoard(g, attackArmy) \cup queenAttackBoard(g, attackArmy)
                   \cup rookAttackBoard(g, attackArmy) \cup bishopAttackBoard(g, attackArmy)
                   \cup knightAttackBoard(g, attackArmy) \cup pawnAttackBoard(g, attackArmy)
        IN  IF between # {} THEN FALSE
            ELSE IF throughMinusKAndR # {} THEN FALSE
            ELSE IF through \cap atb # {} THEN FALSE
            ELSE TRUE

\* isCastleLegal with the slip of looking for pieces between the king and the
\* rook only, not on the squares they cross beyond each other
isCastleLegalBetweenOnly(g, army, castle) ==
    LET rookBoard == {Square(IF castle = KingSide THEN g.fileOfKingsRook
                             ELSE g.fileOfQueensRook, homeRank(army))}
                        \cap g.rooksBoard \cap armyBoard(g, army)
        kingBoard == g.kingsBoard \cap armyBoard(g, army)
    IN  IF ~isCastleAvailable(g, army, castle) THEN FALSE
        ELSE IF rookBoard = {} THEN FALSE
        ELSE IF kingBoard = {} THEN FALSE
        ELSE
        LET chosenRook == first(rookBoard)
            king == first(kingBoard)
            pieces == g.whitePositionBoard \cup g.blackPositionBoard
            between == boardBetweenOnSameRank(king, chosenRook, FALSE) \cap pieces
            kingTo == Square(IF castle = KingSide THEN 6 ELSE 2, rank(king))
            kingMovesThrough == boardBetweenOnSameRank(king, kingTo, TRUE)
            rookTo == Square(IF castle = KingSide THEN 5 ELSE 3, rank(chosenRook))
            rookMovesThrough == boardBetweenOnSameRank(chosenRook, rookTo, TRUE)
            \* (kingMovesThrough | rookMovesThrough) ^ rookBoard ^ kingBoard
            through == kingMovesThrough \cup rookMovesThrough
            xorRook == (through \ rookBoard) \cup (rookBoard \ through)
            xorKing == (xorRook \ kingBoard) \cup (kingBoard \ xorRook)
            throughMinusKAndR == xorKing \cap pieces
            attackArmy == otherArmy(army)
            atb == kingAttackBoard(g, attackArmy) \cup queenAttackBoard(g, attackArmy)
                   \cup rookAttackBoard(g, attackArmy) \cup bishopAttackBoard(g, attackArmy)
                   \cup knightAttackBoard(g, attackArmy) \cup pawnAttackBoard(g, attackArmy)
        IN  IF between # {} THEN FALSE
            ELSE IF kingMovesThrough \cap atb # {} THEN FALSE
            ELSE TRUE

isCastleLegal(g, army, castle) ==
    LET rookBoard == {Square(IF castle = KingSide THEN g.fileOfKingsRook
                             ELSE g.fileOfQueensRook, homeRank(army))}
                        \cap g.rooksBoard \cap armyBoard(g, army)
        kingBoard == g.kingsBoard \cap armyBoard(g, army)
    IN  IF ~isCastleAvailable(g, army, castle) THEN FALSE
        ELSE IF rookBoard = {} THEN FALSE
        ELSE IF kingBoard = {} THEN FALSE
        ELSE
        LET chosenRook == first(rookBoard)
            king == first(kingBoard)
            pieces == g.whitePositionBoard \cup g.blackPositionBoard
            between == boardBetweenOnSameRank(king, chosenRook, FALSE) \cap pieces
            kingTo == Square(IF castle = KingSide THEN 6 ELSE 2, rank(king))
            kingMovesThrough == boardBetweenOnSameRank(king, kingTo, TRUE)
            rookTo == Square(IF castle = KingSide THEN 5 ELSE 3, rank(chosenRook))
            rookMovesThrough == boardBetweenOnSameRank(chosenRook, rookTo, TRUE)
            \* (kingMovesThrough | rookMovesThrough) ^ rookBoard ^ kingBoard
            through == kingMovesThrough \cup rookMovesThrough
            xorRook == (through \ rookBoard) \cup (rookBoard \ through)
            xorKing == (xorRook \ kingBoard) \cup (kingBoard \ xorRook)
            throughMinusKAndR == xorKing \cap pieces
            attackArmy == otherArmy(army)
            atb == kingAttackBoard(g, attackArmy) \cup queenAttackBoard(g, attackArmy)
                   \cup rookAttackBoard(g, attackArmy) \cup bishopAttackBoard(g, attackArmy)
                   \cup knightAttackBoard(g, attackArmy) \cup pawnAttackBoard(g, attackArmy)
        IN  IF between # {} THEN FALSE
            ELSE IF throughMinusKAndR # {} THEN FALSE
            ELSE IF kingMovesThrough \cap atb # {} THEN FALSE
            ELSE TRUE

(***************************************************************************)
(* Pseudo-legal move generation.  The moves are written to the sink in     *)
(* the order of the code: king, queens, rooks, bishops, knights, pawns     *)
(* (pushes, then attacks, pawn by pawn), then the castles; a BitBoard is   *)
(* iterated by ascending square.                                           *)
(***************************************************************************)
\* BitBoard::occupiedSquares(): the squares of a board, ascending
occupiedSquares(b) ==
    [i \in 1..Cardinality(b) |->
        CHOOSE sq \in b : Cardinality({other \in b : other < sq}) = i - 1]

RECURSIVE concat(_)
concat(seqs) == IF seqs = <<>> THEN <<>> ELSE Head(seqs) \o concat(Tail(seqs))

\* generateMove with the slip of leaving the start square out of the move
generateMoveWithoutStart(g, piece, start, end) ==
    LET army == g.activeArmy
        isPromotion == piece = Pawn /\ (IF army = White THEN rank(end) = 7 ELSE rank(end) = 0)
        isCapture == end \in armyBoard(g, otherArmy(army))
        mv == [NullMove EXCEPT !.piece = piece, !.end = end, !.capture = isCapture]
    IN  IF ~isPromotion THEN <<mv>>
        ELSE <<[mv EXCEPT !.promotion = Queen], [mv EXCEPT !.promotion = Knight],
               [mv EXCEPT !.promotion = Rook], [mv EXCEPT !.promotion = Bishop]>>

\* generateMove with the slip of promoting to the queen only
generateMoveQueenOnly(g, piece, start, end) ==
    LET army == g.activeArmy
        isPromotion == piece = Pawn /\ (IF army = White THEN rank(end) = 7 ELSE rank(end) = 0)
        isCapture == end \in armyBoard(g, otherArmy(army))
        mv == [NullMove EXCEPT !.piece = piece, !.start = start, !.end = end,
                               !.capture = isCapture]
    IN  IF ~isPromotion THEN <<mv>> ELSE <<[mv EXCEPT !.promotion = Queen]>>

\* generateMove: one move, or the four promotions of a pawn reaching the last rank
generateMove(g, piece, start, end) ==
    LET army == g.activeArmy
        isPromotion == piece = Pawn /\ (IF army = White THEN rank(end) = 7 ELSE rank(end) = 0)
        isCapture == end \in armyBoard(g, otherArmy(army))
        mv == [NullMove EXCEPT !.piece = piece, !.start = start, !.end = end,
                               !.capture = isCapture]
    IN  IF ~isPromotion THEN <<mv>>
        ELSE <<[mv EXCEPT !.promotion = Queen], [mv EXCEPT !.promotion = Knight],
               [mv EXCEPT !.promotion = Rook], [mv EXCEPT !.promotion = Bishop]>>

\* generateCastle with the slip of encoding the castle as the king's move to
\* the g or c file
generateCastleToKingsTarget(g, army, castleSide) ==
    <<[NullMove EXCEPT !.piece = King,
                       !.start = first(g.kingsBoard \cap armyBoard(g, army)),
                       !.end = Square(IF castleSide = KingSide THEN 6 ELSE 2, homeRank(army)),
                       !.castle = TRUE, !.castleSide = castleSide]>>

\* generateCastle: the king takes the chosen castling rook
generateCastle(g, army, castleSide) ==
    LET rookFile == IF castleSide = KingSide THEN g.fileOfKingsRook ELSE g.fileOfQueensRook
    IN  <<[NullMove EXCEPT !.piece = King,
                           !.start = first(g.kingsBoard \cap armyBoard(g, army)),
                           !.end = Square(rookFile, homeRank(army)),
                           !.castle = TRUE, !.castleSide = castleSide]>>

\* pieceMoves with the slip of not handing the friends to Movegen
pieceMovesOntoFriends(g, piece) ==
    LET friends == armyBoard(g, g.activeArmy)
        enemies == armyBoard(g, otherArmy(g.activeArmy))
        pieces == occupiedSquares(friends \cap pieceBoard(g, piece))
        from(sq) ==
            LET moves == occupiedSquares(movesOf(piece, sq, {}, friends \cup enemies))
            IN  concat([j \in DOMAIN moves |-> generateMove(g, piece, sq, moves[j])])
    IN  concat([i \in DOMAIN pieces |-> from(pieces[i])])

\* the moves of the pieces of one kind, by ascending start and end square
pieceMoves(g, piece) ==
    LET friends == armyBoard(g, g.activeArmy)
        enemies == armyBoard(g, otherArmy(g.activeArmy))
        pieces == occupiedSquares(friends \cap pieceBoard(g, piece))
        from(sq) ==
            LET moves == occupiedSquares(movesOf(piece, sq, friends, enemies))
            IN  concat([j \in DOMAIN moves |-> generateMove(g, piece, sq, moves[j])])
    IN  concat([i \in DOMAIN pieces |-> from(pieces[i])])

\* pawnPushes with the slip of leaving out the double pushes
pawnPushesOneStep(g, sq) ==
    LET army == g.activeArmy
        friends == armyBoard(g, army)
        enemies == armyBoard(g, otherArmy(army))
        moves == occupiedSquares(pawnMoves(army, sq, friends, enemies))
        forwardTwo(newSq) == qAbs(rank(newSq) - rank(sq)) > 1
        push(newSq) == IF forwardTwo(newSq) THEN <<>> ELSE generateMove(g, Pawn, sq, newSq)
    IN  concat([j \in DOMAIN moves |-> push(moves[j])])

\* pawnPushes with the slip of not looking at the square a double push passes
pawnPushesThrough(g, sq) ==
    LET army == g.activeArmy
        friends == armyBoard(g, army)
        enemies == armyBoard(g, otherArmy(army))
        moves == occupiedSquares(pawnMoves(army, sq, friends, enemies))
    IN  concat([j \in DOMAIN moves |-> generateMove(g, Pawn, sq, moves[j])])

\* the pushes of the pawn on sq: a double push over an occupied square is skipped
pawnPushes(g, sq) ==
    LET army == g.activeArmy
        friends == armyBoard(g, army)
        enemies == armyBoard(g, otherArmy(army))
        moves == occupiedSquares(pawnMoves(army, sq, friends, enemies))
        forwardTwo(newSq) == qAbs(rank(newSq) - rank(sq)) > 1
        forwardOne(newSq) ==
            Square(file(newSq), IF army = White THEN rank(newSq) - 1 ELSE rank(newSq) + 1)
        push(newSq) ==
            IF forwardTwo(newSq) /\ forwardOne(newSq) \in (friends \cup enemies)
            THEN <<>> ELSE generateMove(g, Pawn, sq, newSq)
    IN  concat([j \in DOMAIN moves |-> push(moves[j])])

\* the captures of the pawn on sq, the en-passant target counting as an enemy
pawnCaptures(g, sq) ==
    LET army == g.activeArmy
        friends == armyBoard(g, army)
        enemies == armyBoard(g, otherArmy(army))
        enemiesPlusEnpassant ==
            IF isValid(g.enPassantTarget) THEN enemies \cup {g.enPassantTarget} ELSE enemies
        moves == occupiedSquares(pawnAttacks(army, sq, friends, enemiesPlusEnpassant))
    IN  concat([j \in DOMAIN moves |-> generateMove(g, Pawn, sq, moves[j])])

pawnPieceMoves(g) ==
    LET pieces == occupiedSquares(armyBoard(g, g.activeArmy) \cap g.pawnsBoard)
    IN  concat([i \in DOMAIN pieces |->
                    pawnPushes(g, pieces[i]) \o pawnCaptures(g, pieces[i])])

castleMoves(g) ==
    LET army == g.activeArmy
    IN  (IF isCastleLegal(g, army, KingSide)
         THEN generateCastle(g, army, KingSide) ELSE <<>>)
        \o (IF isCastleLegal(g, army, QueenSide)
            THEN generateCastle(g, army, QueenSide) ELSE <<>>)

\* pseudoLegalMoves: the sequence of the moves handed to generatePotential
pseudoLegalMoves(g) ==
    pieceMoves(g, King) \o pieceMoves(g, Queen) \o pieceMoves(g, Rook)
    \o pieceMoves(g, Bishop) \o pieceMoves(g, Knight)
    \o pawnPieceMoves(g) \o castleMoves(g)

\* pseudoLegalMoves is defined when both castle tests are
pseudoLegalMovesDefined(g) ==
    /\ isCastleLegalDefined(g, g.activeArmy, KingSide)
    /\ isCastleLegalDefined(g, g.activeArmy, QueenSide)

(***************************************************************************)
(* Strings: a QString is the sequence of its characters, a character a     *)
(* string of length one.                                                   *)
(***************************************************************************)
UpperChars == <<"A", "B", "C", "D", "E", "F", "G", "H", "K", "N", "P", "Q", "R">>

LowerChars == <<"a", "b", "c", "d", "e", "f", "g", "h", "k", "n", "p", "q", "r">>

DigitChars == <<"0", "1", "2", "3", "4", "5", "6", "7", "8", "9">>

Range(seq) == {seq[i] : i \in DOMAIN seq}

indexOf(seq, c) == CHOOSE i \in DOMAIN seq : seq[i] = c

isUpper(c) == c \in Range(UpperChars)

isLower(c) == c \in Range(LowerChars)

isLetter(c) == isUpper(c) \/ isLower(c)

isNumber(c) == c \in Range(DigitChars)

toLower(c) == IF isUpper(c) THEN LowerChars[indexOf(UpperChars, c)] ELSE c

toUpper(c) == IF isLower(c) THEN UpperChars[indexOf(LowerChars, c)] ELSE c

\* QString(c).toInt() of a digit
digitValue(c) == indexOf(DigitChars, c) - 1

\* QString::toInt() of a string of digits
RECURSIVE toInt(_)
toInt(str) ==
    IF str = <<>> THEN 0
    ELSE 10 * toInt(SubSeq(str, 1, Len(str) - 1)) + digitValue(str[Len(str)])

\* QString::number(n) of n >= 0
RECURSIVE number(_)
number(n) ==
    IF n < 10 THEN <<DigitChars[n + 1]>>
    ELSE number(n \div 10) \o <<DigitChars[(n % 10) + 1]>>

\* QString::split(sep): the parts between the separators, empty parts kept
RECURSIVE split(_, _)
split(str, sep) ==
    IF \A i \in DOMAIN str : str[i] # sep THEN <<str>>
    ELSE LET at == CHOOSE i \in DOMAIN str :
                        str[i] = sep /\ \A j \in 1..(i - 1) : str[j] # sep
         IN  <<SubSeq(str, 1, at - 1)>> \o split(SubSeq(str, at + 1, Len(str)), sep)

\* QStringList::join(sep)
RECURSIVE join(_, _)
join(list, sep) ==
    IF list = <<>> THEN <<>>
    ELSE IF Len(list) = 1 THEN list[1]
    ELSE list[1] \o <<sep>> \o join(Tail(list), sep)

(***************************************************************************)
(* Notation (notation.h): characters of pieces, files and squares.         *)
(***************************************************************************)
charToPiece(c) ==
    CASE c = "K" -> King
      [] c = "Q" -> Queen
      [] c = "R" -> Rook
      [] c = "B" -> Bishop
      [] c = "N" -> Knight
      [] c = "P" -> Pawn
      [] OTHER -> Unknown

\* the null character (the empty string here) for a pawn or an unknown piece
pieceToChar(piece) ==
    CASE piece = King -> "K"
      [] piece = Queen -> "Q"
      [] piece = Rook -> "R"
      [] piece = Bishop -> "B"
      [] piece = Knight -> "N"
      [] OTHER -> ""

fileToChar(f) == LowerChars[f + 1]

squareToString(sq) == <<fileToChar(file(sq)), DigitChars[rank(sq) + 2]>>

stringToSquare(str) ==
    IF /\ Len(str) = 2
       /\ str[1] \in {LowerChars[i] : i \in 1..8}
       /\ str[2] \in {DigitChars[i] : i \in 2..9}
    THEN Square(indexOf(LowerChars, str[1]) - 1, digitValue(str[2]) - 1)
    ELSE InvalidSquare

(***************************************************************************)
(* FEN parsing: Game::setFen and castlingFromFen.                          *)
(***************************************************************************)
\* std::stable_sort of squares by file
RECURSIVE stableSortByFile(_)
stableSortByFile(squares) ==
    IF squares = <<>> THEN <<>>
    ELSE LET sorted == stableSortByFile(SubSeq(squares, 1, Len(squares) - 1))
             x == squares[Len(squares)]
             keep == Cardinality({i \in DOMAIN sorted : file(sorted[i]) <= file(x)})
         IN  SubSeq(sorted, 1, keep) \o <<x>> \o SubSeq(sorted, keep + 1, Len(sorted))

\* castlingFromFen: [first, second], the castle side and the castling rook's
\* square that a (lower-cased) character of the castling field names
castlingFromFen(c, king, rooks) ==
    IF rooks = <<>> \/ ~isValid(king)
    THEN [first |-> IF c = "k" THEN KingSide ELSE QueenSide, second |-> InvalidSquare]
    ELSE IF c = "k" THEN [first |-> KingSide, second |-> rooks[Len(rooks)]]
    ELSE IF c = "q" THEN [first |-> QueenSide, second |-> rooks[1]]
    ELSE LET hits == {i \in DOMAIN rooks : fileToChar(file(rooks[i])) = c}
         IN  IF hits = {} THEN [first |-> KingSide, second |-> InvalidSquare]
             ELSE LET sq == rooks[first(hits)]
                  IN  [first |-> IF file(sq) > file(king) THEN KingSide ELSE QueenSide,
                       second |-> sq]

\* the Q_ASSERTs of castlingFromFen hold
castlingFromFenAsserts(c, king, rooks, isChess960) ==
    LET result == castlingFromFen(c, king, rooks)
    IN  (rooks = <<>> \/ ~isValid(king))
        \/ /\ c = "k" => file(result.second) > file(king)
           /\ c = "q" => file(result.second) < file(king)
           /\ c \notin {"k", "q"} => isChess960
           /\ isValid(result.second)
           /\ file(result.second) # file(king)

\* the state setFen starts from: everything cleared but the last move and the
\* cached repetitions, which setFen does not touch
clearedGame(g) ==
    [g EXCEPT !.activeArmy = White, !.halfMoveClock = 0, !.halfMoveNumber = 2,
              !.fileOfKingsRook = 0, !.fileOfQueensRook = 0,
              !.enPassantTarget = InvalidSquare,
              !.whitePositionBoard = {}, !.blackPositionBoard = {},
              !.kingsBoard = {}, !.queensBoard = {}, !.rooksBoard = {},
              !.bishopsBoard = {}, !.knightsBoard = {}, !.pawnsBoard = {},
              !.hasWhiteKingCastle = FALSE, !.hasBlackKingCastle = FALSE,
              !.hasWhiteQueenCastle = FALSE, !.hasBlackQueenCastle = FALSE]

\* the empty files that the digits before character j (from 0) of a rank
\* string add to its file: blank, as the loop has summed it up
RECURSIVE blankBefore(_, _)
blankBefore(str, j) ==
    IF j = 0 THEN 0
    ELSE blankBefore(str, j - 1)
         + (IF isNumber(str[j]) THEN digitValue(str[j]) - 1 ELSE 0)

\* the characters of the piece placement in the order the loops meet them,
\* each with the square the loops compute for it
placementCells(ranks) ==
    concat([i \in 1..Len(ranks) |->
        [j \in 1..Len(ranks[i]) |->
            [c |-> ranks[i][j],
             square |-> Square((j - 1) + blankBefore(ranks[i], j - 1), 7 - (i - 1))]]])

\* the squares on which the placement puts a piece of an army and a kind
\* (togglePieceAt with bit true, letter by letter)
placedSquares(cells, army, piece) ==
    {cells[k].square : k \in {k \in DOMAIN cells :
        /\ isLetter(cells[k].c)
        /\ (army = White) = isUpper(cells[k].c)
        /\ piece \in {"any", charToPiece(toUpper(cells[k].c))}}}

\* the squares of the rooks of an army, in the order met
placedRooks(cells, army) ==
    LET rooks == SelectSeq(cells, LAMBDA cell :
                    /\ isLetter(cell.c)
                    /\ (army = White) = isUpper(cell.c)
                    /\ charToPiece(toUpper(cell.c)) = Rook)
    IN  [k \in DOMAIN rooks |-> rooks[k].square]

\* the square of the king of an army: the last one met
placedKing(cells, army) ==
    LET kings == {k \in DOMAIN cells :
                    /\ isLetter(cells[k].c)
                    /\ (army = White) = isUpper(cells[k].c)
                    /\ charToPiece(toUpper(cells[k].c)) = King}
    IN  IF kings = {} THEN InvalidSquare
        ELSE cells[CHOOSE k \in kings : \A other \in kings : other <= k].square

\* one character of the castling field
parseCastling(g, c, whiteKing, whiteRooks, blackKing, blackRooks) ==
    LET castleArmy == IF isUpper(c) THEN White ELSE Black
        pair == IF castleArmy = White
                THEN castlingFromFen(toLower(c), whiteKing, whiteRooks)
                ELSE castlingFromFen(toLower(c), blackKing, blackRooks)
        rookFile == file(pair.second)
    IN  IF castleArmy = White
        THEN (IF pair.first = KingSide
              THEN [g EXCEPT !.hasWhiteKingCastle = TRUE, !.fileOfKingsRook = rookFile]
              ELSE [g EXCEPT !.hasWhiteQueenCastle = TRUE, !.fileOfQueensRook = rookFile])
        ELSE (IF pair.first = KingSide
              THEN [g EXCEPT !.hasBlackKingCastle = TRUE, !.fileOfKingsRook = rookFile]
              ELSE [g EXCEPT !.hasBlackQueenCastle = TRUE, !.fileOfQueensRook = rookFile])

RECURSIVE parseCastlings(_, _, _, _, _, _)
parseCastlings(g, castling, whiteKing, whiteRooks, blackKing, blackRooks) ==
    IF castling = <<>> THEN g
    ELSE parseCastlings(
            parseCastling(g, Head(castling), whiteKing, whiteRooks, blackKing, blackRooks),
            Tail(castling), whiteKing, whiteRooks, blackKing, blackRooks)

\* the piece placement of a FEN, parsed into a cleared game: [game,
\* whiteRooks, blackRooks, whiteKing, blackKing]
parsedPlacement(g, fen) ==
    LET cells == placementCells(split(split(fen, " ")[1], "/"))
    IN  [game |-> [clearedGame(g) EXCEPT
                    !.whitePositionBoard = placedSquares(cells, White, "any"),
                    !.blackPositionBoard = placedSquares(cells, Black, "any"),
                    !.kingsBoard = placedSquares(cells, White, King)
                                   \cup placedSquares(cells, Black, King),
                    !.queensBoard = placedSquares(cells, White, Queen)
                                    \cup placedSquares(cells, Black, Queen),
                    !.rooksBoard = placedSquares(cells, White, Rook)
                                   \cup placedSquares(cells, Black, Rook),
                    !.bishopsBoard = placedSquares(cells, White, Bishop)
                                     \cup placedSquares(cells, Black, Bishop),
                    !.knightsBoard = placedSquares(cells, White, Knight)
                                     \cup placedSquares(cells, Black, Knight),
                    !.pawnsBoard = placedSquares(cells, White, Pawn)
                                   \cup placedSquares(cells, Black, Pawn)],
         whiteRooks |-> placedRooks(cells, White),
         blackRooks |-> placedRooks(cells, Black),
         whiteKing |-> placedKing(cells, White),
         blackKing |-> placedKing(cells, Black)]

\* setFen: the game after parsing fen (g supplies the fields setFen keeps)
setFen(g, fen) ==
    LET list == split(fen, " ")
        acc == parsedPlacement(g, fen)
        whiteRooks == stableSortByFile(acc.whiteRooks)
        blackRooks == stableSortByFile(acc.blackRooks)
        g1 == [acc.game EXCEPT !.activeArmy = IF list[2] = <<"w">> THEN White ELSE Black]
        g2 == IF list[3] # <<"-">>
              THEN parseCastlings(g1, list[3], acc.whiteKing, whiteRooks,
                                  acc.blackKing, blackRooks)
              ELSE g1
        g3 == IF list[4] # <<"-">>
              THEN [g2 EXCEPT !.enPassantTarget = stringToSquare(list[4])] ELSE g2
        g4 == IF Len(list) > 4
              THEN [g3 EXCEPT !.halfMoveClock = toInt(list[5]) % 65536] ELSE g3
    IN  IF Len(list) > 5
        THEN [g4 EXCEPT !.halfMoveNumber = (toInt(list[6]) * 2) % 65536] ELSE g4

\* the Q_ASSERTs of setFen and castlingFromFen hold for fen
setFenAsserts(g, fen, isChess960) ==
    LET list == split(fen, " ")
    IN  /\ Len(list) >= 4
        /\ Len(split(list[1], "/")) = 8
        /\ LET acc == parsedPlacement(g, fen)
               whiteRooks == stableSortByFile(acc.whiteRooks)
               blackRooks == stableSortByFile(acc.blackRooks)
           IN  /\ isValid(acc.whiteKing)
               /\ isValid(acc.blackKing)
               /\ list[3] # <<"-">> =>
                    \A i \in DOMAIN list[3] :
                        IF isUpper(list[3][i])
                        THEN castlingFromFenAsserts(toLower(list[3][i]), acc.whiteKing,
                                                    whiteRooks, isChess960)
                        ELSE castlingFromFenAsserts(toLower(list[3][i]), acc.blackKing,
                                                    blackRooks, isChess960)

(***************************************************************************)
(* FEN emission: Game::stateOfGameToFen and fenFromCastling.  Where the    *)
(* code runs into a failed Q_ASSERT or a Q_UNREACHABLE the build decides   *)
(* what happens: the function is modelled by the set of its outcomes, the  *)
(* abort (the character "!") among them.                                   *)
(***************************************************************************)
Aborted == <<"!">>

\* what fenFromCastling may give once its behaviour is undefined
undefinedCastling(castle, fileOfCastlingRook) ==
    {"!", IF castle = KingSide THEN "k" ELSE "q", fileToChar(fileOfCastlingRook)}

\* fenFromCastling: the characters it may return
fenFromCastling(castle, king, rooks, fileOfCastlingRook, isChess960) ==
    LET rooksToTheLeft == SelectSeq(rooks, LAMBDA sq : file(sq) < file(king))
        rooksToTheRight == SelectSeq(rooks, LAMBDA sq : file(sq) > file(king))
        side == IF castle = KingSide THEN rooksToTheRight ELSE rooksToTheLeft
        outermost == IF castle = KingSide THEN side[Len(side)] ELSE side[1]
    IN  IF rooks = <<>> THEN {IF castle = KingSide THEN "k" ELSE "q"}
        ELSE IF \E i \in DOMAIN rooks : file(rooks[i]) = file(king)
        THEN undefinedCastling(castle, fileOfCastlingRook)
        ELSE IF side = <<>> THEN undefinedCastling(castle, fileOfCastlingRook)
        ELSE IF file(outermost) = fileOfCastlingRook
        THEN {IF castle = KingSide THEN "k" ELSE "q"}
        ELSE IF \E i \in DOMAIN side : file(side[i]) = fileOfCastlingRook
        THEN {fileToChar(fileOfCastlingRook)} \cup (IF isChess960 THEN {} ELSE {"!"})
        ELSE undefinedCastling(castle, fileOfCastlingRook)

\* the character of the piece on square index of an army
pieceChar(g, index, army) ==
    LET ch == pieceToChar(pieceTypeAt(g, index))
    IN  IF army = White THEN (IF ch # "" THEN toUpper(ch) ELSE "P")
                        ELSE (IF ch # "" THEN toLower(ch) ELSE "p")

\* the string of rank number i (0 is the top rank) from file j on, blank empty
\* squares pending
RECURSIVE rankString(_, _, _, _)
rankString(g, i, j, blank) ==
    LET index == Square(j, 7 - i)
        flush == IF blank > 0 THEN number(blank) ELSE <<>>
    IN  IF j >= 8 THEN flush
        ELSE IF hasPieceAt(g, index, White)
        THEN flush \o <<pieceChar(g, index, White)>> \o rankString(g, i, j + 1, 0)
        ELSE IF hasPieceAt(g, index, Black)
        THEN flush \o <<pieceChar(g, index, Black)>> \o rankString(g, i, j + 1, 0)
        ELSE rankString(g, i, j + 1, blank + 1)

\* the rooks of an army in the order stateOfGameToFen meets them (top rank
\* first, by file), then sorted by file
rooksOf(g, army) ==
    LET met == [k \in 1..64 |-> Square((k - 1) % 8, 7 - ((k - 1) \div 8))]
    IN  stableSortByFile(SelectSeq(met,
            LAMBDA sq : hasPieceAt(g, sq, army) /\ pieceTypeAt(g, sq) = Rook))

\* the king square stateOfGameToFen finds for an army: the last king met
kingOf(g, army) ==
    LET kings == {sq \in armyBoard(g, army) : pieceTypeAt(g, sq) = King}
        order(sq) == 8 * (7 - rank(sq)) + file(sq)
    IN  IF kings = {} THEN InvalidSquare
        ELSE CHOOSE sq \in kings : \A other \in kings : order(other) <= order(sq)

\* the castling fields stateOfGameToFen may build (before "-" stands in for
\* the empty one)
castlingStrings(g, isChess960) ==
    LET chars(army, castle) ==
            IF ~isCastleAvailable(g, army, castle) THEN {<<>>}
            ELSE {<<IF army = White THEN toUpper(c) ELSE c>> :
                    c \in fenFromCastling(castle, kingOf(g, army), rooksOf(g, army),
                            IF castle = KingSide THEN g.fileOfKingsRook
                            ELSE g.fileOfQueensRook, isChess960)}
    IN  {wk \o wq \o bk \o bq :
            wk \in chars(White, KingSide), wq \in chars(White, QueenSide),
            bk \in chars(Black, KingSide), bq \in chars(Black, QueenSide)}

\* stateOfGameToFen: the strings it may return, Aborted when it does not return
stateOfGameToFen(g, includeMoveNumbers, isChess960) ==
    LET ranks == join([i \in 1..8 |-> rankString(g, i - 1, 0, 0)], "/")
        activeArmy == IF g.activeArmy = White THEN <<"w">> ELSE <<"b">>
        enPassant == IF isValid(g.enPassantTarget)
                     THEN squareToString(g.enPassantTarget) ELSE <<"-">>
        clocks == IF includeMoveNumbers
                  THEN <<number(g.halfMoveClock), number((g.halfMoveNumber + 1) \div 2)>>
                  ELSE <<>>
        fen(castling) ==
            IF "!" \in Range(castling) THEN Aborted
            ELSE join(<<ranks, activeArmy, IF castling = <<>> THEN <<"-">> ELSE castling,
                        enPassant>> \o clocks, " ")
        kingsValid == isValid(kingOf(g, White)) /\ isValid(kingOf(g, Black))
    IN  {fen(castling) : castling \in castlingStrings(g, isChess960)}
        \cup (IF kingsValid THEN {} ELSE {Aborted})

\* isDeadPosition with the slip of not looking at the rooks
isDeadPositionForgetsRooks(g) ==
    IF g.queensBoard # {} THEN FALSE
    ELSE IF g.pawnsBoard # {} THEN FALSE
    ELSE IF Cardinality(g.whitePositionBoard \cup g.blackPositionBoard) > 3 THEN FALSE
    ELSE TRUE

\* isDeadPosition(): no queen, rook or pawn, and three pieces at the most
isDeadPosition(g) ==
    IF g.queensBoard # {} THEN FALSE
    ELSE IF g.rooksBoard # {} THEN FALSE
    ELSE IF g.pawnsBoard # {} THEN FALSE
    ELSE IF Cardinality(g.whitePositionBoard \cup g.blackPositionBoard) > 3 THEN FALSE
    ELSE TRUE

\* isSamePosition with the slip of comparing the two colour boards but not
\* the six piece boards
isSamePositionByColourOnly(g, other) ==
    /\ g.activeArmy = other.activeArmy
    /\ g.fileOfKingsRook = other.fileOfKingsRook
    /\ g.fileOfQueensRook = other.fileOfQueensRook
    /\ g.enPassantTarget = other.enPassantTarget
    /\ g.whitePositionBoard = other.whitePositionBoard
    /\ g.blackPositionBoard = other.blackPositionBoard
    /\ g.hasWhiteKingCastle = other.hasWhiteKingCastle
    /\ g.hasBlackKingCastle = other.hasBlackKingCastle
    /\ g.hasWhiteQueenCastle = other.hasWhiteQueenCastle
    /\ g.hasBlackQueenCastle = other.hasBlackQueenCastle

\* isSamePosition(other)
isSamePosition(g, other) ==
    /\ g.activeArmy = other.activeArmy
    /\ g.fileOfKingsRook = other.fileOfKingsRook
    /\ g.fileOfQueensRook = other.fileOfQueensRook
    /\ g.enPassantTarget = other.enPassantTarget
    /\ g.whitePositionBoard = other.whitePositionBoard
    /\ g.blackPositionBoard = other.blackPositionBoard
    /\ g.kingsBoard = other.kingsBoard
    /\ g.queensBoard = other.queensBoard
    /\ g.rooksBoard = other.rooksBoard
    /\ g.bishopsBoard = other.bishopsBoard
    /\ g.knightsBoard = other.knightsBoard
    /\ g.pawnsBoard = other.pawnsBoard
    /\ g.hasWhiteKingCastle = other.hasWhiteKingCastle
    /\ g.hasBlackKingCastle = other.hasBlackKingCastle
    /\ g.hasWhiteQueenCastle = other.hasWhiteQueenCastle
    /\ g.hasBlackQueenCastle = other.hasBlackQueenCastle

(***************************************************************************)
(* Zobrist (zobrist.h): one table entry per (piece kind, army, square),    *)
(* per castle right, per en-passant file, and one for the side to move.    *)
(* The entries are independent 64-bit values, so the xor of a selection of *)
(* entries is modelled as the set of the entries selected.                 *)
(***************************************************************************)
\* Zobrist::hash(game), and Game::hash which delegates to it
hash(g) ==
    LET pieces ==
            {<<"piece", pieceTypeAt(g, sq), White, sq>> : sq \in g.whitePositionBoard}
            \cup {<<"piece", pieceTypeAt(g, sq), Black, sq>> : sq \in g.blackPositionBoard}
        castling ==
            {key \in {<<"castle", army, castle>> : army \in Armies, castle \in Castles} :
                isCastleAvailable(g, key[2], key[3])}
        enPassant ==
            IF isValid(g.enPassantTarget) THEN {<<"enPassant", file(g.enPassantTarget)>>}
            ELSE {}
        sideToMove == IF g.activeArmy = Black THEN {<<"sideToMove">>} ELSE {}
    IN  pieces \cup castling \cup enPassant \cup sideToMove

(***************************************************************************)
(* The FEN strings the model loads.                                        *)
(***************************************************************************)
\* rnbqkbnr/pppppppp/8/8/8/8/PPPPPPPP/RNBQKBNR w KQkq - 0 1
\* the starting position (s_startPos)
FenStart ==
    <<"r", "n", "b", "q", "k", "b", "n", "r", "/", "p", "p", "p", "p", "p",
      "p", "p", "p", "/", "8", "/", "8", "/", "8", "/", "8", "/", "P", "P",
      "P", "P", "P", "P", "P", "P", "/", "R", "N", "B", "Q", "K", "B", "N",
      "R", " ", "w", " ", "K", "Q", "k", "q", " ", "-", " ", "0", " ", "1">>

\* 4k3/6q1/8/8/8/8/8/R3K2R w KQ - 0 1
\* f1 and a1 attacked by the queen (TestGames::testCastlingAnd960)
FenCastleThroughCheck ==
    <<"4", "k", "3", "/", "6", "q", "1", "/", "8", "/", "8", "/", "8", "/",
      "8", "/", "8", "/", "R", "3", "K", "2", "R", " ", "w", " ", "K", "Q",
      " ", "-", " ", "0", " ", "1">>

\* r3k2r/8/8/8/8/8/8/R3K2R b kq - 0 1
\* Black may castle on both sides; White has its rooks but no right
FenBlackCastles ==
    <<"r", "3", "k", "2", "r", "/", "8", "/", "8", "/", "8", "/", "8", "/",
      "8", "/", "8", "/", "R", "3", "K", "2", "R", " ", "b", " ", "k", "q", " ", "-",
      " ", "0", " ", "1">>

\* 4k3/8/8/8/8/8/1b6/R3K3 b Q - 3 9
\* White keeps only the queen-side right; the bishop attacks a1
FenQueenSideOnly ==
    <<"4", "k", "3", "/", "8", "/", "8", "/", "8", "/", "8", "/", "8", "/",
      "1", "b", "6", "/", "R", "3", "K", "3", " ", "b", " ", "Q", " ", "-",
      " ", "3", " ", "9">>

\* 4k3/8/8/8/8/8/6p1/4K2R w K - 0 30
\* a black pawn on g2 attacks f1 and h1
FenPawnGuardsF1 ==
    <<"4", "k", "3", "/", "8", "/", "8", "/", "8", "/", "8", "/", "8", "/",
      "6", "p", "1", "/", "4", "K", "2", "R", " ", "w", " ", "K", " ", "-",
      " ", "0", " ", "3", "0">>

\* 4k3/8/8/8/8/8/7p/4K2R w K - 0 30
\* a black pawn on h2 attacks g1
FenPawnGuardsG1 ==
    <<"4", "k", "3", "/", "8", "/", "8", "/", "8", "/", "8", "/", "8", "/",
      "7", "p", "/", "4", "K", "2", "R", " ", "w", " ", "K", " ", "-",
      " ", "0", " ", "3", "0">>

\* 4k3/8/8/8/4R3/8/8/4K2R w K - 5 20
\* White has a rook on the file of its king
FenRookOnKingsFile ==
    <<"4", "k", "3", "/", "8", "/", "8", "/", "8", "/", "4", "R", "3", "/",
      "8", "/", "8", "/", "4", "K", "2", "R", " ", "w", " ", "K", " ", "-",
      " ", "5", " ", "2", "0">>

\* 4k3/8/8/8/3pP3/8/8/4K3 b - e3 0 12
\* White has just played e2e4
FenEnPassant ==
    <<"4", "k", "3", "/", "8", "/", "8", "/", "8", "/", "3", "p", "P", "3",
      "/", "8", "/", "8", "/", "4", "K", "3", " ", "b", " ", "-", " ", "e",
      "3", " ", "0", " ", "1", "2">>

\* 4k3/3p4/8/4P3/8/8/4P3/4K3 b - - 1 7
\* a double push of d7 allows e5xd6 en passant
FenDoublePush ==
    <<"4", "k", "3", "/", "3", "p", "4", "/", "8", "/", "4", "P", "3", "/",
      "8", "/", "8", "/", "4", "P", "3", "/", "4", "K", "3", " ", "b", " ",
      "-", " ", "-", " ", "1", " ", "7">>

\* 3n4/4P3/8/8/8/8/k5p1/4K3 w - - 0 40
\* pawns one step from promotion
FenPromotion ==
    <<"3", "n", "4", "/", "4", "P", "3", "/", "8", "/", "8", "/", "8", "/",
      "8", "/", "k", "5", "p", "1", "/", "4", "K", "3", " ", "w", " ", "-",
      " ", "-", " ", "0", " ", "4", "0">>

\* 4k3/4R3/8/8/8/8/8/4K3 w - - 0 1
\* the side not to move is in check
FenKingEnPrise ==
    <<"4", "k", "3", "/", "4", "R", "3", "/", "8", "/", "8", "/", "8", "/",
      "8", "/", "8", "/", "4", "K", "3", " ", "w", " ", "-", " ", "-", " ",
      "0", " ", "1">>

\* 5kr1/8/8/8/8/8/8/5KR1 w Kk - 0 1
\* Chess960: king-side castle swaps king and rook
Fen960KingSwap ==
    <<"5", "k", "r", "1", "/", "8", "/", "8", "/", "8", "/", "8", "/", "8",
      "/", "8", "/", "5", "K", "R", "1", " ", "w", " ", "K", "k", " ", "-",
      " ", "0", " ", "1">>

\* 1rk5/8/8/8/8/8/8/1RK5 b Qq - 2 3
\* Chess960: queen-side castle leaves the king on c
Fen960QueenSide ==
    <<"1", "r", "k", "5", "/", "8", "/", "8", "/", "8", "/", "8", "/", "8",
      "/", "8", "/", "1", "R", "K", "5", " ", "b", " ", "Q", "q", " ", "-",
      " ", "2", " ", "3">>

\* 4k1r1/8/8/8/8/8/8/4K1RR w Gk - 4 11
\* Chess960: the castling rook g1 is not the outermost rook
Fen960InnerRook ==
    <<"4", "k", "1", "r", "1", "/", "8", "/", "8", "/", "8", "/", "8", "/",
      "8", "/", "8", "/", "4", "K", "1", "R", "R", " ", "w", " ", "G", "k",
      " ", "-", " ", "4", " ", "1", "1">>

\* 4k3/8/8/8/8/8/4P3/4K3 w - -
\* a FEN without the clocks
FenFourFields ==
    <<"4", "k", "3", "/", "8", "/", "8", "/", "8", "/", "8", "/", "8", "/",
      "4", "P", "3", "/", "4", "K", "3", " ", "w", " ", "-", " ", "-">>

\* the FEN strings of standard chess, loaded with UCI_Chess960 true or false
\* "4k3/8/8/8/8/8/8/4K3 w - - 100 80": the half-move clock at 100
FenClockAtLimit ==
    <<"4", "k", "3", "/", "8", "/", "8", "/", "8", "/", "8", "/", "8", "/", "8",
      "/", "4", "K", "3", " ", "w", " ", "-", " ", "-", " ", "1", "0", "0", " ",
      "8", "0">>

\* 4k3/8/8/8/8/8/8/RK1B4 w Q - 0 1
\* nothing stands between the king and the queen's rook; the bishop stands
\* on d1, where the rook goes
Fen960BishopOnD1 ==
    <<"4", "k", "3", "/", "8", "/", "8", "/", "8", "/", "8", "/", "8", "/",
      "8", "/", "R", "K", "1", "B", "4", " ", "w", " ", "Q", " ", "-",
      " ", "0", " ", "1">>

StandardFens ==
    {FenStart, FenCastleThroughCheck, FenBlackCastles, FenQueenSideOnly, FenPawnGuardsF1,
     FenRookOnKingsFile, FenEnPassant, FenDoublePush, FenPromotion, FenKingEnPrise,
     FenFourFields, FenClockAtLimit, FenPawnGuardsG1}

\* the FEN strings of Chess960 positions, loaded with UCI_Chess960 true
Chess960Fens == {Fen960KingSwap, Fen960QueenSide, Fen960InnerRook, Fen960BishopOnD1}

Fens == StandardFens \cup Chess960Fens

\* "4K3/8/8/8/8/8/8/8 b - - 0 1": no black king
FenNoBlackKing ==
    <<"4", "K", "3", "/", "8", "/", "8", "/", "8", "/", "8", "/", "8", "/", "8",
      "/", "8", " ", "b", " ", "-", " ", "-", " ", "0", " ", "1">>

\* the malformed FEN strings
MalformedFens == {FenNoBlackKing}

(***************************************************************************)
(* The state machine.                                                      *)
(***************************************************************************)
VARIABLES
    game,         \* the position (a Game value)
    chess960,     \* the option UCI_Chess960
    fenIn,        \* the string given to the last setFen
    plies,        \* the successful makeMove calls since the construction
    queries,      \* the isChecked and stateOfGameToFen calls since the last
                  \* makeMove or construction
    last,         \* the last operation: its name, arguments and result, and
                  \* the position it was applied to
    emittedOnly,  \* every move made since the last setFen was one that
                  \* pseudoLegalMoves emitted for the position it was made in
    legalOnly,    \* ... and left the mover's king out of check
    history,      \* the positions of History::globalInstance()
    copies,       \* the copy of the position that each search thread owns
    calls         \* the calls each thread has made on its copy, with what
                  \* they returned

vars == <<game, chess960, fenIn, plies, queries, last, emittedOnly, legalOnly, history,
         copies, calls>>

\* a Game as its constructor initialises it, before setFen
constructedGame ==
    [whitePositionBoard |-> {}, blackPositionBoard |-> {},
     kingsBoard |-> {}, queensBoard |-> {}, rooksBoard |-> {},
     bishopsBoard |-> {}, knightsBoard |-> {}, pawnsBoard |-> {},
     fileOfKingsRook |-> 0, fileOfQueensRook |-> 0, repetitions |-> -1,
     hasWhiteKingCastle |-> FALSE, hasBlackKingCastle |-> FALSE,
     hasWhiteQueenCastle |-> FALSE, hasBlackQueenCastle |-> FALSE,
     enPassantTarget |-> InvalidSquare, halfMoveClock |-> 0, halfMoveNumber |-> 2,
     activeArmy |-> White, lastMove |-> NullMove]

\* the record of an operation
operation(op, before, move, army, ret, fen) ==
    [op |-> op, before |-> before, move |-> move, army |-> army, ret |-> ret, fen |-> fen]

\* the (string, option) pairs given to setFen
FenInputs ==
    {<<fen, opt>> \in Fens \X BOOLEAN : fen \in Chess960Fens => opt}
    \cup (MalformedFens \X {FALSE})

\* what a call of setFen leaves: the parsed game, and, when one of its
\* Q_ASSERTs fails, the abort with the placement parsed as well (setFen is
\* void: nothing is returned in either case)
setFenOutcomes(fen, isChess960) ==
    {[game |-> setFen(constructedGame, fen), fen |-> fen]}
    \cup (IF setFenAsserts(constructedGame, fen, isChess960) THEN {}
          ELSE {[game |-> parsedPlacement(constructedGame, fen).game, fen |-> Aborted]})

\* the construction was aborted by a failed Q_ASSERT of setFen
aborted == last.op = "setFen" /\ last.fen = Aborted

\* Game::Game(fen): construction from one of the FEN strings
Init ==
    \E in \in FenInputs : \E outcome \in setFenOutcomes(in[1], in[2]) :
        /\ game = outcome.game
        /\ chess960 = in[2]
        /\ fenIn = in[1]
        /\ plies = 0
        /\ queries = 0
        /\ last = operation("setFen", constructedGame, NullMove, White, TRUE, outcome.fen)
        /\ emittedOnly = TRUE
        /\ legalOnly = TRUE
        /\ history = <<>>
        /\ copies = <<>>
        /\ calls = <<>>

\* the moves pseudoLegalMoves emits for g, as a set
emittedMoves(g) == Range(pseudoLegalMoves(g))

\* a move as Notation::stringToMove(str, Computer) gives it: the start, the
\* end and the promotion only
computerMove(start, end, promotion) ==
    [NullMove EXCEPT !.start = start, !.end = end, !.promotion = promotion]

\* a castle given by its flag and side, without an end square
flaggedCastle(start, castleSide) ==
    [NullMove EXCEPT !.start = start, !.castle = TRUE, !.castleSide = castleSide]

\* the castles a user may enter for g: when the castle is legal, the king to
\* the g or c file, the king onto the castling rook, and the bare castle flag
userCastles(g) ==
    LET army == g.activeArmy
        home == homeRank(army)
        king == first(g.kingsBoard \cap armyBoard(g, army))
        entries(castle) ==
            IF ~isCastleLegal(g, army, castle) THEN {}
            ELSE {computerMove(king, Square(IF castle = KingSide THEN 6 ELSE 2, home), Unknown),
                  computerMove(king, Square(IF castle = KingSide THEN g.fileOfKingsRook
                                            ELSE g.fileOfQueensRook, home), Unknown),
                  flaggedCastle(king, castle),
                  flaggedCastle(InvalidSquare, castle)}
    IN  entries(KingSide) \cup entries(QueenSide)

\* moves that cannot be filled out: no squares, one square only, or an
\* unknown piece on an empty start square
malformedMoves(g) ==
    LET empty == Squares \ (g.whitePositionBoard \cup g.blackPositionBoard)
        from == first(empty)
        to == first(empty \ {from})
    IN  {NullMove,
         [NullMove EXCEPT !.start = from],
         [NullMove EXCEPT !.end = to, !.piece = King],
         computerMove(from, to, Unknown)}

\* the moves a user may enter for g: castles, malformed moves, a pawn's move
\* to the last rank that names no promotion, and a move of a piece of the
\* side that is not to move to an empty square
userMoves(g) ==
    LET promotions == {mv \in emittedMoves(g) : mv.promotion # Unknown}
        bare == {computerMove(mv.start, mv.end, Unknown) : mv \in promotions}
        enemies == armyBoard(g, otherArmy(g.activeArmy))
        empty == Squares \ (g.whitePositionBoard \cup g.blackPositionBoard)
        seized == IF enemies = {} \/ empty = {} THEN {}
                  ELSE {computerMove(first(enemies), first(empty), Unknown)}
    IN  {mv \in userCastles(g) \cup malformedMoves(g) \cup bare \cup seized :
            ~fillOutMoveUnreachable(g, g.activeArmy, mv, chess960)}

\* makeMove(move) with a move that pseudoLegalMoves emitted for the position
MakeEmittedMove ==
    /\ ~aborted
    /\ plies < MaxPlies
    /\ pseudoLegalMovesDefined(game)
    /\ \E mv \in emittedMoves(game) :
        LET made == makeMove(game, mv, chess960)
        IN  /\ game' = made.game
            /\ last' = operation("makeMove", game, mv, game.activeArmy, made.ok, <<>>)
            /\ plies' = plies + 1
            /\ queries' = 0
            /\ emittedOnly' = emittedOnly
            /\ legalOnly' = (legalOnly /\ emittedOnly /\ ~checkedBy(made.game, game.activeArmy))
    /\ UNCHANGED <<chess960, fenIn, history, copies, calls>>

\* makeMove(move) with a move that a user entered
MakeUserMove ==
    /\ ~aborted
    /\ plies < MaxPlies
    /\ pseudoLegalMovesDefined(game)
    /\ \E mv \in userMoves(game) :
        LET made == makeMove(game, mv, chess960)
        IN  /\ game' = made.game
            /\ last' = operation("makeMove", game, mv, game.activeArmy, made.ok, <<>>)
            /\ plies' = IF made.ok THEN plies + 1 ELSE plies
            /\ queries' = 0
            /\ emittedOnly' = (emittedOnly /\ ~made.ok)
            /\ legalOnly' = (legalOnly /\ ~made.ok)
    /\ UNCHANGED <<chess960, fenIn, history, copies, calls>>

\* isChecked(army)
IsChecked ==
    /\ ~aborted
    /\ queries < MaxQueries
    /\ queries' = queries + 1
    /\ \E army \in Armies :
        LET checked == isChecked(game, army)
        IN  /\ game' = checked.game
            /\ last' = operation("isChecked", game, NullMove, army, checked.ret, <<>>)
    /\ UNCHANGED <<chess960, fenIn, plies, emittedOnly, legalOnly, history, copies, calls>>

\* stateOfGameToFen(includeMoveNumbers), which does not change the position
StateOfGameToFen ==
    /\ ~aborted
    /\ queries < MaxQueries
    /\ queries' = queries + 1
    /\ \E includeMoveNumbers \in BOOLEAN :
        \E fen \in stateOfGameToFen(game, includeMoveNumbers, chess960) :
            last' = operation("stateOfGameToFen", game, NullMove, White,
                              includeMoveNumbers, fen)
    /\ UNCHANGED <<game, chess960, fenIn, plies, emittedOnly, legalOnly, history, copies, calls>>

\* isDeadPosition(), which does not change the position
IsDeadPosition ==
    /\ ~aborted
    /\ queries < MaxQueries
    /\ queries' = queries + 1
    /\ last' = operation("isDeadPosition", game, NullMove, game.activeArmy,
                         isDeadPosition(game), <<>>)
    /\ UNCHANGED <<game, chess960, fenIn, plies, emittedOnly, legalOnly, history, copies, calls>>

Next ==
    \/ MakeEmittedMove
    \/ MakeUserMove
    \/ IsChecked
    \/ StateOfGameToFen
    \/ IsDeadPosition

Spec == Init /\ [][Next]_vars

(***************************************************************************)
(* History (history.h) and the threefold-repetition predicate of the       *)
(* search (Node::isThreeFold), as TestGames::testHistory and               *)
(* TestGames::testThreeFold drive them: the History is cleared, a game is  *)
(* constructed and added, and the game is added again after each move.     *)
(***************************************************************************)
\* History::clear()
clear(h) == <<>>

\* addGame with the slip of putting the game in front
addGameInFront(h, g) == <<g>> \o h

\* History::addGame(game)
addGame(h, g) == Append(h, g)

\* History::currentGame()
currentGame(h) == h[Len(h)]

\* a move after which no earlier position can come back
isIrreversible(move) == move.piece = Pawn \/ move.capture \/ move.castle

\* the positions of h from the i-th back to the one the last irreversible
\* move led to that match the current one by hash and by isSamePosition
RECURSIVE repetitions(_, _)
repetitions(h, i) ==
    IF i = 0 \/ isIrreversible(h[i + 1].lastMove) THEN 0
    ELSE (IF hash(h[i]) = hash(currentGame(h)) /\ isSamePosition(h[i], currentGame(h))
          THEN 1 ELSE 0) + repetitions(h, i - 1)

\* isThreeFold with the slip of counting the candidate itself
isThreeFoldCountingCandidate(h) ==
    /\ h # <<>>
    /\ repetitions(h, Len(h) - 1) + 1 >= 2

\* Node::isThreeFold() of a root node made of the current game of the History
isThreeFold(h) ==
    /\ h # <<>>
    /\ repetitions(h, Len(h) - 1) >= 2

\* the moves the games of the History tests shuffle with: the knights out and
\* back, and a pawn step
ShuffleMoves ==
    {<<<<"g", "1">>, <<"f", "3">>>>, <<<<"f", "3">>, <<"g", "1">>>>,
     <<<<"g", "8">>, <<"f", "6">>>>, <<<<"f", "6">>, <<"g", "8">>>>,
     <<<<"e", "2">>, <<"e", "3">>>>, <<<<"e", "7">>, <<"e", "6">>>>}

\* those of them the side to move can make in g, as Notation::stringToMove
\* gives them
shuffleMoves(g) ==
    {computerMove(stringToSquare(str[1]), stringToSquare(str[2]), Unknown) : str \in
        {pair \in ShuffleMoves :
            /\ stringToSquare(pair[1]) \in armyBoard(g, g.activeArmy)
            /\ stringToSquare(pair[2]) \notin (g.whitePositionBoard \cup g.blackPositionBoard)}}

\* History::clear(); Game g; History::addGame(g)
HistoryInit ==
    /\ game = setFen(constructedGame, FenStart)
    /\ chess960 = FALSE
    /\ fenIn = FenStart
    /\ plies = 0
    /\ queries = 0
    /\ last = operation("setFen", constructedGame, NullMove, White, TRUE, FenStart)
    /\ emittedOnly = TRUE
    /\ legalOnly = TRUE
    /\ history = addGame(clear(<<>>), setFen(constructedGame, FenStart))
    /\ copies = <<>>
    /\ calls = <<>>

\* the same, after a game was played
NewGame ==
    /\ plies > 0
    /\ game' = setFen(constructedGame, FenStart)
    /\ fenIn' = FenStart
    /\ plies' = 0
    /\ queries' = 0
    /\ last' = operation("setFen", constructedGame, NullMove, White, TRUE, FenStart)
    /\ history' = addGame(clear(history), setFen(constructedGame, FenStart))
    /\ UNCHANGED <<chess960, emittedOnly, legalOnly, copies, calls>>

\* g.makeMove(move); History::addGame(g)
PlayMove ==
    /\ plies < MaxHistoryPlies
    /\ \E mv \in shuffleMoves(game) :
        LET made == makeMove(game, mv, chess960)
        IN  /\ made.ok
            /\ game' = made.game
            /\ last' = operation("makeMove", game, mv, game.activeArmy, made.ok, <<>>)
            /\ history' = addGame(history, made.game)
    /\ plies' = plies + 1
    /\ queries' = 0
    /\ UNCHANGED <<chess960, fenIn, emittedOnly, legalOnly, copies, calls>>

\* Node n(nullptr, g); n.isThreeFold()
IsThreeFold ==
    /\ queries < MaxQueries
    /\ queries' = queries + 1
    /\ last' = operation("isThreeFold", game, NullMove, game.activeArmy,
                         isThreeFold(history), <<>>)
    /\ UNCHANGED <<game, chess960, fenIn, plies, emittedOnly, legalOnly, history, copies, calls>>

HistoryNext ==
    \/ NewGame
    \/ PlayMove
    \/ IsThreeFold

SpecHistory == HistoryInit /\ [][HistoryNext]_vars

(***************************************************************************)
(* Search threads: each thread owns a copy of the parent position and      *)
(* calls makeMove and isChecked on it.  A Game holds its boards, flags,    *)
(* counters and last move by value, so that a copy shares nothing with the *)
(* original; the calls read the option UCI_Chess960 and the Movegen        *)
(* tables, which no call writes.                                           *)
(***************************************************************************)
MaxThreads == 2

MaxCalls == 2

\* the parent is constructed and every thread takes its copy (Game's
\* copy constructor, member by member)
CopiesInit ==
    \E in \in FenInputs :
        /\ in[1] \in Fens
        /\ game = setFen(constructedGame, in[1])
        /\ chess960 = in[2]
        /\ fenIn = in[1]
        /\ plies = 0
        /\ queries = 0
        /\ last = operation("setFen", constructedGame, NullMove, White, TRUE, in[1])
        /\ emittedOnly = TRUE
        /\ legalOnly = TRUE
        /\ history = <<>>
        /\ copies = [t \in 1..MaxThreads |-> game]
        /\ calls = [t \in 1..MaxThreads |-> <<>>]

\* ThreadMakeMove with the slip of calling makeMove on the parent itself
\* and not on the thread's copy
ThreadMakeMoveOnParent(t) ==
    /\ calls[t] = <<>>
    /\ pseudoLegalMovesDefined(copies[t])
    /\ \E mv \in emittedMoves(copies[t]) \cup {NullMove} :
        LET made == makeMove(game, mv, chess960)
        IN  /\ game' = made.game
            /\ copies' = copies
            /\ calls' = [calls EXCEPT ![t] = Append(@,
                            operation("makeMove", copies[t], mv, copies[t].activeArmy, made.ok, <<>>))]
    /\ UNCHANGED <<chess960, fenIn, plies, queries, last, emittedOnly, legalOnly, history>>

\* thread t calls makeMove(mv) on its copy, as the search does for each
\* candidate move of a node; the null move is one that cannot be filled out
ThreadMakeMove(t) ==
    /\ calls[t] = <<>>
    /\ pseudoLegalMovesDefined(copies[t])
    /\ \E mv \in emittedMoves(copies[t]) \cup {NullMove} :
        LET made == makeMove(copies[t], mv, chess960)
        IN  /\ copies' = [copies EXCEPT ![t] = made.game]
            /\ calls' = [calls EXCEPT ![t] = Append(@,
                            operation("makeMove", copies[t], mv, copies[t].activeArmy, made.ok, <<>>))]
    /\ UNCHANGED <<game, chess960, fenIn, plies, queries, last, emittedOnly, legalOnly, history>>

\* thread t asks its copy whether the mover's own king is in check
ThreadIsChecked(t) ==
    /\ calls[t] # <<>> /\ Len(calls[t]) < MaxCalls
    /\ calls[t][1].ret
    /\ LET army == calls[t][1].army
           checked == isChecked(copies[t], army)
       IN  /\ copies' = [copies EXCEPT ![t] = checked.game]
           /\ calls' = [calls EXCEPT ![t] = Append(@,
                           operation("isChecked", copies[t], NullMove, army, checked.ret, <<>>))]
    /\ UNCHANGED <<game, chess960, fenIn, plies, queries, last, emittedOnly, legalOnly, history>>

CopiesNext ==
    \/ \E t \in 1..MaxThreads : ThreadMakeMove(t)
    \/ \E t \in 1..MaxThreads : ThreadIsChecked(t)

SpecCopies == CopiesInit /\ [][CopiesNext]_vars

(***************************************************************************)
(* The rules of chess the properties are stated against: what attacks      *)
(* what, by the geometry of the board and not by the attack tables.        *)
(***************************************************************************)
PieceKinds == {Pawn, Knight, Bishop, Rook, Queen, King}

sgn(x) == IF x > 0 THEN 1 ELSE IF x < 0 THEN -1 ELSE 0

\* the squares strictly between a and b when they share a rank, a file or a
\* diagonal
squaresBetween(a, b) ==
    LET df == file(b) - file(a)
        dr == rank(b) - rank(a)
        n == IF qAbs(df) > qAbs(dr) THEN qAbs(df) ELSE qAbs(dr)
    IN  {Square(file(a) + k * sgn(df), rank(a) + k * sgn(dr)) : k \in 1..(n - 1)}

\* the piece of army on sq attacks the square target
attacksSquare(g, army, sq, target) ==
    LET df == qAbs(file(target) - file(sq))
        dr == qAbs(rank(target) - rank(sq))
        kind == pieceTypeAt(g, sq)
        unobstructed == squaresBetween(sq, target)
                    \cap (g.whitePositionBoard \cup g.blackPositionBoard) = {}
        straight == (df = 0 \/ dr = 0) /\ unobstructed
        diagonal == df = dr /\ unobstructed
    IN  /\ sq # target
        /\ CASE kind = King -> df <= 1 /\ dr <= 1
             [] kind = Knight -> {df, dr} = {1, 2}
             [] kind = Rook -> straight
             [] kind = Bishop -> diagonal
             [] kind = Queen -> straight \/ diagonal
             [] kind = Pawn -> df = 1 /\ rank(target) - rank(sq)
                                            = (IF army = White THEN 1 ELSE -1)
             [] OTHER -> FALSE

\* some piece of army attacks the square target
isAttackedBy(g, army, target) ==
    \E sq \in armyBoard(g, army) : attacksSquare(g, army, sq, target)

\* the army has a king, and where its first (lowest) king stands
hasKing(g, army) == g.kingsBoard \cap armyBoard(g, army) # {}

kingSquare(g, army) == first(g.kingsBoard \cap armyBoard(g, army))

\* the square of the castling rook, and where king and rook go
castleRookSquare(g, army, castle) ==
    Square(IF castle = KingSide THEN g.fileOfKingsRook ELSE g.fileOfQueensRook,
           homeRank(army))

castleKingTo(army, castle) == Square(IF castle = KingSide THEN 6 ELSE 2, homeRank(army))

castleRookTo(army, castle) == Square(IF castle = KingSide THEN 5 ELSE 3, homeRank(army))

\* the squares of a rank from a to b, both included
squaresFromTo(a, b) == {a, b} \cup squaresBetween(a, b)

\* the squares the king crosses, its own and its destination included
kingPath(g, army, castle) ==
    squaresFromTo(kingSquare(g, army), castleKingTo(army, castle))

\* a rook of the army stands on the castling rook's square
castleRookStands(g, army, castle) ==
    castleRookSquare(g, army, castle) \in (g.rooksBoard \cap armyBoard(g, army))

\* nothing but the king and the castling rook stands between them or on the
\* squares either of them crosses
castlePathsEmpty(g, army, castle) ==
    LET king == kingSquare(g, army)
        rook == castleRookSquare(g, army, castle)
        crossed == squaresBetween(king, rook)
                   \cup kingPath(g, army, castle)
                   \cup squaresFromTo(rook, castleRookTo(army, castle))
    IN  (crossed \ {king, rook}) \cap (g.whitePositionBoard \cup g.blackPositionBoard) = {}

\* a square that holds nothing: no bit of any board
isEmptySquare(g, sq) ==
    /\ sq \notin (g.whitePositionBoard \cup g.blackPositionBoard)
    /\ \A piece \in PieceKinds : sq \notin pieceBoard(g, piece)

\* exactly the given square holds a piece of the army of the given kind,
\* and it holds nothing else
standsAlone(g, sq, army, piece) ==
    /\ sq \in armyBoard(g, army) /\ sq \notin armyBoard(g, otherArmy(army))
    /\ \A kind \in PieceKinds : (sq \in pieceBoard(g, kind)) = (kind = piece)

\* the position each FEN string of the model parses to
parsed == [fen \in Fens |-> setFen(constructedGame, fen)]

(***************************************************************************)
(* Properties of the position.                                             *)
(***************************************************************************)
boardsExclusive(g) ==
    /\ g.whitePositionBoard \cap g.blackPositionBoard = {}
    /\ \A p, q \in PieceKinds : p # q => pieceBoard(g, p) \cap pieceBoard(g, q) = {}
    /\ g.whitePositionBoard \cup g.blackPositionBoard
            = UNION {pieceBoard(g, p) : p \in PieceKinds}

\* C1: after the FEN is parsed and after any sequence of makeMove calls that
\* each apply a move pseudoLegalMoves emitted, the white and the black board
\* are disjoint, the six piece boards are pairwise disjoint, and the two
\* colour boards cover exactly what the six piece boards cover.
C1_BoardsExclusive == emittedOnly => boardsExclusive(game)

\* an emitted capture was applied after another emitted move
C1_Witness ==
    /\ emittedOnly /\ plies >= 2
    /\ last.op = "makeMove" /\ last.ret /\ game.lastMove.capture
    /\ boardsExclusive(game)

oneKingEach(g) ==
    /\ Cardinality(g.kingsBoard \cap g.whitePositionBoard) = 1
    /\ Cardinality(g.kingsBoard \cap g.blackPositionBoard) = 1

\* the FEN strings of the model whose position has one king per side
FensOneKingEach == {fen \in Fens : oneKingEach(parsed[fen])}

\* ... and in which the side that is not to move is not in check
FensOpponentSafe ==
    {fen \in FensOneKingEach :
        ~checkedBy(parsed[fen], otherArmy(parsed[fen].activeArmy))}

\* C2 as stated: from a FEN with one king per side, makeMove calls that each
\* apply a pseudo-legal move after which isChecked(mover) is false leave
\* exactly one white king and exactly one black king.
C2_OneKingEachAsStated ==
    (legalOnly /\ fenIn \in FensOneKingEach) => oneKingEach(game)

\* C2 as amended: the same, from a FEN in which moreover the side that is not
\* to move is not in check.
C2_OneKingEach ==
    (legalOnly /\ fenIn \in FensOpponentSafe) => oneKingEach(game)

\* two such moves were applied, the last one a capture
C2_Witness ==
    /\ legalOnly /\ fenIn \in FensOpponentSafe /\ plies >= 2
    /\ last.op = "makeMove" /\ game.lastMove.capture
    /\ oneKingEach(game)

\* a move makeMove cannot fill in: an invalid start square, an invalid end
\* square that is not a flagged castle's, or an unknown piece kind with no
\* piece on the start square
cannotBeFilled(g, mv) ==
    \/ ~isValid(mv.start)
    \/ ~isValid(mv.end) /\ ~mv.castle
    \/ mv.piece = Unknown /\ mv.start \notin (g.whitePositionBoard \cup g.blackPositionBoard)

\* C3: when makeMove cannot fill in the move it returns false, and whenever
\* it returns false every field of the position is what it was before.
C3_MalformedMoveChangesNothing ==
    (last.op = "makeMove" /\ (~last.ret \/ cannotBeFilled(last.before, last.move)))
        => (~last.ret /\ game = last.before)

\* a move that cannot be filled in was refused after a move was made
C3_Witness ==
    /\ last.op = "makeMove" /\ ~last.ret /\ plies >= 1
    /\ cannotBeFilled(last.before, last.move)
    /\ isValid(last.move.start) /\ isValid(last.move.end)

\* C4: a castle applied by makeMove leaves the king on file 6 and the rook on
\* file 5 of the home rank (king side), or the king on file 2 and the rook on
\* file 3 (queen side), the squares the king and the castling rook came from
\* empty unless they are one of these two, and both rights of the mover
\* cleared, in standard chess and in Chess960.
C4_CastleLayout ==
    (last.op = "makeMove" /\ last.ret /\ game.lastMove.castle) =>
        LET army == last.army
            side == game.lastMove.castleSide
            kingFrom == kingSquare(last.before, army)
            rookFrom == castleRookSquare(last.before, army, side)
            kingTo == castleKingTo(army, side)
            rookTo == castleRookTo(army, side)
        IN  /\ standsAlone(game, kingTo, army, King)
            /\ standsAlone(game, rookTo, army, Rook)
            /\ \A sq \in {kingFrom, rookFrom} \ {kingTo, rookTo} : isEmptySquare(game, sq)
            /\ ~isCastleAvailable(game, army, KingSide)
            /\ ~isCastleAvailable(game, army, QueenSide)

\* a Chess960 castle in which the rook goes to the square the king leaves
C4_Witness ==
    /\ last.op = "makeMove" /\ last.ret /\ game.lastMove.castle /\ chess960
    /\ castleRookTo(last.army, game.lastMove.castleSide) = kingSquare(last.before, last.army)
    /\ standsAlone(game, castleKingTo(last.army, game.lastMove.castleSide), last.army, King)

\* C5: isCastleLegal is false whenever a square of the king's path, from the
\* king's square to its destination, both included, is attacked by an enemy
\* king, queen, rook, bishop, knight or pawn.
C5_AttackedKingPathForbidsCastle ==
    \A army \in Armies, castle \in Castles :
        (/\ hasKing(game, army)
         /\ \E sq \in kingPath(game, army, castle) :
                isAttackedBy(game, otherArmy(army), sq))
            => ~isCastleLegal(game, army, castle)

\* C6: isCastleLegal is true only if isCastleAvailable is and a rook of the
\* army stands on the castling rook's file of the home rank.
C6_LegalCastleNeedsRightAndRook ==
    \A army \in Armies, castle \in Castles :
        isCastleLegal(game, army, castle)
            => /\ isCastleAvailable(game, army, castle)
               /\ castleRookStands(game, army, castle)

\* a castle is legal after a move was made
C6_Witness ==
    /\ plies >= 1
    /\ \E army \in Armies, castle \in Castles :
        isCastleLegal(game, army, castle) /\ castleRookStands(game, army, castle)

\* C7: with the right available, the castling rook in place, the paths
\* empty and no square of the king's path attacked, isCastleLegal is true,
\* whatever else the enemy attacks.
C7_OnlyKingPathMustBeSafe ==
    \A army \in Armies, castle \in Castles :
        (/\ isCastleAvailable(game, army, castle)
         /\ hasKing(game, army)
         /\ castleRookStands(game, army, castle)
         /\ castlePathsEmpty(game, army, castle)
         /\ \A sq \in kingPath(game, army, castle) :
                ~isAttackedBy(game, otherArmy(army), sq))
            => isCastleLegal(game, army, castle)

\* a castle is legal although the enemy attacks the castling rook's square
C7_Witness ==
    \E army \in Armies, castle \in Castles :
        /\ isCastleLegal(game, army, castle)
        /\ hasKing(game, army)
        /\ isAttackedBy(game, otherArmy(army), castleRookSquare(game, army, castle))
        /\ castleRookSquare(game, army, castle) \notin kingPath(game, army, castle)

\* C8: after the FEN is parsed and after every makeMove, a castle right that
\* is true implies that the army's king stands on its home rank on the file
\* it started on, and that a rook of the army stands on the castling rook's
\* file of that rank.
C8_RightImpliesKingAndRookAtHome ==
    \A army \in Armies, castle \in Castles :
        isCastleAvailable(game, army, castle)
            => /\ hasKing(game, army)
               /\ game.kingsBoard \cap armyBoard(game, army)
                    = {Square(file(kingOf(parsed[fenIn], army)), homeRank(army))}
               /\ castleRookStands(game, army, castle)

\* the FEN strings of the model that are canonically formatted: all those
\* with six fields
CanonicalFens == {fen \in Fens : Len(split(fen, " ")) = 6}

\* C9: for a canonically formatted FEN string, stateOfGameToFen(true) of the
\* position the string was parsed to is that string.
C9_EmitOfParseIsIdentity ==
    (/\ last.op = "stateOfGameToFen" /\ last.ret
     /\ plies = 0 /\ fenIn \in CanonicalFens)
        => last.fen = fenIn

\* C10: for a position reached from a parsed FEN by makeMove calls, parsing
\* the string stateOfGameToFen returns gives the same position under
\* isSamePosition.
C10_ParseOfEmitIsSamePosition ==
    (last.op = "stateOfGameToFen" /\ last.fen # Aborted)
        => isSamePosition(setFen(constructedGame, last.fen), game)

\* the positions the model compares a position with: those the FEN strings
\* parse to and those one emitted move later
knownPositions ==
    UNION {{parsed[fen]} \cup {makeMove(parsed[fen], mv, FALSE).game :
                                    mv \in emittedMoves(parsed[fen])} : fen \in Fens}

\* C11: two positions that are the same under isSamePosition have the same
\* hash; in particular the hash does not depend on the clocks or on the last
\* move.
C11_SamePositionSameHash ==
    \A other \in knownPositions \cup {last.before} :
        isSamePosition(game, other) => hash(game) = hash(other)

\* isChecked changed the last move of a position and left its hash alone
C11_Witness ==
    /\ last.op = "isChecked" /\ game.lastMove # last.before.lastMove
    /\ isSamePosition(game, last.before) /\ hash(game) = hash(last.before)
    /\ plies >= 1

\* the entries of h before the last that are no further back than the
\* position the last pawn move, capture or castle led to
sinceIrreversible(h) ==
    LET irreversibles == {j \in 2..Len(h) : isIrreversible(h[j].lastMove)}
        lastIrreversible == IF irreversibles = {} THEN 1
                            ELSE CHOOSE j \in irreversibles : \A k \in irreversibles : k <= j
    IN  lastIrreversible .. (Len(h) - 1)

\* those of them that match the last entry by hash and by isSamePosition
earlierMatches(h) ==
    {i \in sinceIrreversible(h) :
        hash(h[i]) = hash(h[Len(h)]) /\ isSamePosition(h[i], h[Len(h)])}

\* C12: with every position added to the History after each makeMove, the
\* current position is threefold exactly when at least two earlier positions
\* of the History, no further back than the last pawn move, capture or
\* castle, match it by hash and by isSamePosition; one earlier occurrence is
\* not enough.
C12_ThreeFoldIsTwoEarlierMatches ==
    last.op = "isThreeFold" =>
        /\ last.ret = (Cardinality(earlierMatches(history)) >= 2)
        /\ (Cardinality({i \in 1..(Len(history) - 1) :
                            isSamePosition(history[i], game)}) <= 1 => ~last.ret)

\* the knights went out and back twice: the starting position a third time
C12_Witness ==
    /\ last.op = "isThreeFold" /\ last.ret
    /\ Len(history) = 9 /\ Cardinality(earlierMatches(history)) = 2

\* a position that occurred once before, found not threefold
C12_WitnessOnceBefore ==
    /\ last.op = "isThreeFold" /\ ~last.ret
    /\ Cardinality(earlierMatches(history)) = 1

\* C13: the History is append-only between clears: after clear() and
\* addGame(p1) ... addGame(pn) it holds exactly p1 ... pn and currentGame()
\* is pn; addGame neither changes nor reorders the earlier entries.
C13_HistoryIsAppendOnly ==
    [][history' # history =>
        /\ \/ last'.op = "setFen" /\ history' = <<game'>>
           \/ last'.op = "makeMove" /\ history' = history \o <<game'>>
        /\ currentGame(history') = game']_vars

\* four positions added since the History was cleared, the last one current
C13_Witness ==
    /\ last.op = "makeMove" /\ Len(history) = 4
    /\ history[1] = parsed[FenStart] /\ history[3] = last.before
    /\ currentGame(history) = game

\* the castle moves among the moves emitted, by side
castlesAmong(moves, castle) == {mv \in moves : mv.castle /\ mv.castleSide = castle}

\* C14: pseudoLegalMoves emits a castle move of the side to move for a side
\* of the board exactly when isCastleLegal is true of it, and that move is
\* the king's, from the king's square to the square of the castling rook,
\* with the castle flag and the side set.
C14_CastleEmittedWhenLegal ==
    pseudoLegalMovesDefined(game) =>
        LET army == game.activeArmy
            emitted == emittedMoves(game)
        IN  /\ \A castle \in Castles :
                LET castles == castlesAmong(emitted, castle)
                IN  /\ (castles # {}) = isCastleLegal(game, army, castle)
                    /\ Cardinality(castles) <= 1
                    /\ \A mv \in castles :
                        /\ mv.piece = King
                        /\ mv.start = kingSquare(game, army)
                        /\ mv.end = castleRookSquare(game, army, castle)
                        /\ mv.end \in game.rooksBoard \cap armyBoard(game, army)
            /\ \A mv \in emitted : mv.castle => mv.castleSide \in Castles

\* a position reached by a move in which one castle is emitted and the other,
\* not legal, is not
C14_Witness ==
    /\ plies >= 1 /\ pseudoLegalMovesDefined(game)
    /\ LET emitted == emittedMoves(game)
       IN  castlesAmong(emitted, KingSide) # {} /\ castlesAmong(emitted, QueenSide) = {}
    /\ isCastleLegal(game, game.activeArmy, KingSide)
    /\ ~isCastleLegal(game, game.activeArmy, QueenSide)

\* the side on which the bare king move mv of g is a castle of army: a legal
\* castle entered as the king's move from file 4 to file 6 or 2, or, with
\* UCI_Chess960, as the king's move onto its castling rook
enteredCastles(g, army, mv, isChess960) ==
    {castle \in Castles :
        /\ isCastleLegal(g, army, castle)
        /\ mv.start = kingSquare(g, army)
        /\ \/ file(mv.start) = 4 /\ mv.end = castleKingTo(army, castle)
           \/ isChess960 /\ mv.end = castleRookSquare(g, army, castle)}

\* C15: makeMove, given a king move with only its start and end squares,
\* takes it for a castle both when the king goes from file 4 to file 6 or 2 of
\* its back rank and when it goes onto the square of its own castling rook,
\* and leaves the castled layout: king on the g or c file, rook on the f or d
\* file.
C15_BareKingMoveIsCastle ==
    (/\ last.op = "makeMove" /\ last.ret
     /\ last.move = computerMove(last.move.start, last.move.end, Unknown)
     /\ hasKing(last.before, last.army))
        => \A castle \in enteredCastles(last.before, last.army, last.move, chess960) :
                /\ game.lastMove.castle /\ game.lastMove.castleSide = castle
                /\ standsAlone(game, castleKingTo(last.army, castle), last.army, King)
                /\ standsAlone(game, castleRookTo(last.army, castle), last.army, Rook)

pushesAmong(moves) == {mv \in moves : mv.piece = Pawn /\ file(mv.start) = file(mv.end)}

\* the square between the start and the end of a double push
passedSquare(mv) == Square(file(mv.start), (rank(mv.start) + rank(mv.end)) \div 2)

\* C17: pseudoLegalMoves never emits a pawn's double push whose passed square
\* or destination square is occupied, nor a single push onto an occupied
\* square (in a position where every square holds one piece at the most and
\* every piece has its colour and its kind).
C17_PawnPushesUnobstructed ==
    (pseudoLegalMovesDefined(game) /\ boardsExclusive(game)) =>
        \A mv \in pushesAmong(emittedMoves(game)) :
            /\ isEmptySquare(game, mv.end)
            /\ qAbs(rank(mv.end) - rank(mv.start)) \in {1, 2}
            /\ qAbs(rank(mv.end) - rank(mv.start)) = 2
                    => isEmptySquare(game, passedSquare(mv))

\* a position reached by a move in which a pawn of the side to move on its
\* starting rank has a piece right in front of it and an empty square behind
\* that piece, while another pawn's double push is emitted
C17_Witness ==
    /\ plies >= 1 /\ pseudoLegalMovesDefined(game)
    /\ LET army == game.activeArmy
           forward == IF army = White THEN 8 ELSE -8
           startRank == IF army = White THEN 1 ELSE 6
           emitted == pushesAmong(emittedMoves(game))
       IN  /\ \E sq \in game.pawnsBoard \cap armyBoard(game, army) :
                /\ rank(sq) = startRank
                /\ ~isEmptySquare(game, sq + forward)
                /\ isEmptySquare(game, sq + 2 * forward)
                /\ \A mv \in emitted : mv.start # sq
           /\ \E mv \in emitted : qAbs(rank(mv.end) - rank(mv.start)) = 2

\* the rank on which the pawns of army promote
lastRank(army) == IF army = White THEN 7 ELSE 0

\* C18: for every pawn move to the last rank pseudoLegalMoves emits exactly
\* four moves with that start and end square, promoting to the queen, the
\* knight, the rook and the bishop, and none without a promotion.
C18_FourPromotions ==
    pseudoLegalMovesDefined(game) =>
        LET moves == pseudoLegalMoves(game)
            toLastRank(mv) == mv.piece = Pawn /\ rank(mv.end) = lastRank(game.activeArmy)
        IN  \A i \in DOMAIN moves :
                toLastRank(moves[i]) =>
                    LET same == {j \in DOMAIN moves :
                                    /\ moves[j].start = moves[i].start
                                    /\ moves[j].end = moves[i].end}
                    IN  /\ Cardinality(same) = 4
                        /\ {moves[j].promotion : j \in same} = {Queen, Knight, Rook, Bishop}
                        /\ \A j \in same : moves[j].piece = Pawn

\* a position reached by a move in which a pawn promotes by a push and
\* another, or the same, by a capture
C18_Witness ==
    /\ plies >= 1 /\ pseudoLegalMovesDefined(game)
    /\ LET emitted == emittedMoves(game)
           toLastRank(mv) == mv.piece = Pawn /\ rank(mv.end) = lastRank(game.activeArmy)
       IN  /\ \E mv \in emitted : toLastRank(mv) /\ mv.capture /\ mv.promotion = Bishop
           /\ \E mv \in emitted : toLastRank(mv) /\ ~mv.capture /\ mv.promotion = Knight

\* the game was constructed as the starting position, which is what the
\* default constructor copies
fromStart == fenIn = FenStart /\ ~chess960

\* 1. e4 was played in it
afterE4 ==
    /\ fromStart /\ plies = 1
    /\ game.lastMove.start = stringToSquare(<<"e", "2">>)
    /\ game.lastMove.end = stringToSquare(<<"e", "4">>)

\* C19: the default-constructed position is the standard starting position
\* (its FEN ends in w KQkq - 0 1), pseudoLegalMoves emits exactly 20 moves for
\* it, none of which leaves White's king in check, and it emits 20 moves for
\* Black after 1. e4.
C19_TwentyMovesFromStart ==
    /\ (fromStart /\ plies = 0) =>
            /\ stateOfGameToFen(game, TRUE, chess960) = {FenStart}
            /\ game.activeArmy = White
            /\ Len(pseudoLegalMoves(game)) = 20
            /\ Cardinality(emittedMoves(game)) = 20
            /\ \A mv \in emittedMoves(game) :
                    LET made == makeMove(game, mv, chess960)
                    IN  made.ok /\ ~isChecked(made.game, White).ret
    /\ afterE4 =>
            /\ game.activeArmy = Black
            /\ Len(pseudoLegalMoves(game)) = 20
            /\ Cardinality(emittedMoves(game)) = 20

\* Black to move after 1. e4, with 20 moves emitted
C19_Witness ==
    /\ afterE4 /\ last.op = "makeMove" /\ last.before = parsed[FenStart]
    /\ game.activeArmy = Black /\ Len(pseudoLegalMoves(game)) = 20

\* C20: in a position in which every occupied square holds one piece of one
\* army, isChecked(army) is true exactly when the square of the army's king is
\* attacked by an enemy queen, rook, bishop, knight, king or pawn, the attacks
\* of queen, rook and bishop ending at the first piece in their way.
C20_CheckedIffKingAttacked ==
    boardsExclusive(game) =>
        \A army \in Armies :
            isChecked(game, army).ret =
                (/\ hasKing(game, army)
                 /\ isAttackedBy(game, otherArmy(army), kingSquare(game, army)))

\* after a move, isChecked found a king checked by a pawn alone, and found the
\* king behind a piece in a rook's or a queen's way not checked
C20_Witness ==
    /\ plies >= 1 /\ last.op = "isChecked" /\ hasKing(last.before, last.army)
    /\ boardsExclusive(last.before)
    /\ LET g == last.before
           enemy == otherArmy(last.army)
           king == kingSquare(g, last.army)
       IN  \/ /\ last.ret
              /\ \A sq \in armyBoard(g, enemy) :
                    attacksSquare(g, enemy, sq, king) => sq \in g.pawnsBoard
           \/ /\ ~last.ret
              /\ \E sq \in armyBoard(g, enemy) \cap (g.rooksBoard \cup g.queensBoard) :
                    /\ file(sq) = file(king) \/ rank(sq) = rank(king)
                    /\ squaresBetween(sq, king)
                            \cap (g.whitePositionBoard \cup g.blackPositionBoard) # {}

\* the pieces of a kind on the board of g, of both armies
piecesOf(g, piece) ==
    Cardinality(pieceBoard(g, piece) \cap (g.whitePositionBoard \cup g.blackPositionBoard))

\* C21: isDeadPosition() is true exactly when the board holds no queen, no
\* rook, no pawn and three pieces at the most; it is false for king and rook
\* against king and for every position of four or more pieces.
C21_DeadPositionIffBareMinors ==
    (last.op = "isDeadPosition" /\ boardsExclusive(game)) =>
        LET total == piecesOf(game, King) + piecesOf(game, Queen) + piecesOf(game, Rook)
                     + piecesOf(game, Bishop) + piecesOf(game, Knight) + piecesOf(game, Pawn)
        IN  /\ last.ret = (/\ piecesOf(game, Queen) = 0 /\ piecesOf(game, Rook) = 0
                           /\ piecesOf(game, Pawn) = 0 /\ total <= 3)
            /\ total >= 4 => ~last.ret
            /\ (total = 3 /\ piecesOf(game, King) = 2 /\ piecesOf(game, Rook) = 1) => ~last.ret

\* king and bishop against king after a capture, found dead
C21_Witness ==
    /\ last.op = "isDeadPosition" /\ last.ret /\ boardsExclusive(game)
    /\ game.lastMove.capture
    /\ piecesOf(game, King) = 2 /\ piecesOf(game, Bishop) = 1
    /\ Cardinality(game.whitePositionBoard \cup game.blackPositionBoard) = 3

\* king and rook against king, found not dead
C21_WitnessRook ==
    /\ last.op = "isDeadPosition" /\ ~last.ret /\ boardsExclusive(game)
    /\ piecesOf(game, King) = 2 /\ piecesOf(game, Rook) = 1
    /\ Cardinality(game.whitePositionBoard \cup game.blackPositionBoard) = 3

\* every board of g is empty, and g has no castle right and no en-passant
\* target
isEmptyPosition(g) ==
    /\ g.whitePositionBoard = {} /\ g.blackPositionBoard = {}
    /\ \A piece \in PieceKinds : pieceBoard(g, piece) = {}
    /\ \A army \in Armies, castle \in Castles : ~isCastleAvailable(g, army, castle)
    /\ ~isValid(g.enPassantTarget)

\* C22: setFen on a malformed FEN (here one without a king) reports a parse
\* error to its caller and leaves the position empty: all boards empty, no
\* castle right, no en-passant target.
C22_MalformedFenLeavesEmptyPosition ==
    (last.op = "setFen" /\ fenIn \in MalformedFens) =>
        /\ ~aborted
        /\ ~last.ret
        /\ isEmptyPosition(game)

\* the last operation was a successful makeMove
moved == last.op = "makeMove" /\ last.ret

\* ... of a pawn's double step that pseudoLegalMoves emitted
movedDoubleStep ==
    /\ moved
    /\ game.lastMove.piece = Pawn
    /\ qAbs(rank(game.lastMove.end) - rank(game.lastMove.start)) = 2
    /\ last.move \in emittedMoves(last.before)

\* C23: after a makeMove that applies an emitted double step of a pawn, the
\* en-passant target is the square the pawn passed, on rank 2 after White's
\* step and on rank 5 after Black's, and the pawn stands on the square right
\* beyond it; after every other successful makeMove the target is invalid.
C23_EnPassantTargetBehindPawn ==
    moved =>
        IF movedDoubleStep
        THEN /\ game.enPassantTarget = passedSquare(game.lastMove)
             /\ rank(game.enPassantTarget) = (IF last.army = White THEN 2 ELSE 5)
             /\ isEmptySquare(game, game.enPassantTarget)
             /\ game.lastMove.end
                    = game.enPassantTarget + (IF last.army = White THEN 8 ELSE -8)
             /\ standsAlone(game, game.lastMove.end, last.army, Pawn)
        ELSE ~isValid(game.enPassantTarget)

\* a double step was made in a position that had an en-passant target of its
\* own
C23_Witness ==
    /\ movedDoubleStep /\ isValid(last.before.enPassantTarget)
    /\ game.enPassantTarget = passedSquare(game.lastMove)
    /\ game.enPassantTarget # last.before.enPassantTarget

\* a move that is not a double step was made in a position that had an
\* en-passant target, and no target is left
C23_WitnessReset ==
    /\ moved /\ ~movedDoubleStep /\ isValid(last.before.enPassantTarget)
    /\ ~isValid(game.enPassantTarget)

\* C24: the half-move clock is at most 100 in every position reached by
\* makeMove from a parsed position whose clock is at most 100.
C24_HalfMoveClockAtMost100 ==
    (fenIn \in Fens /\ parsed[fenIn].halfMoveClock <= 100 /\ ~aborted)
        => game.halfMoveClock <= 100

\* the right of army on the side castle is in g what it is in other
sameRight(g, other, army, castle) ==
    isCastleAvailable(g, army, castle) = isCastleAvailable(other, army, castle)

\* C25: makeMove for the mover M clears both rights of M when the king moves,
\* castles included; it clears M's queen-side right when a rook moves from
\* the queen's rook's file of M's home rank and M's king-side right when one
\* moves from the king's rook's file of that rank; every other move leaves
\* both rights of M as they were.
C25_MoversRights ==
    moved =>
        LET before == last.before
            army == last.army
            mv == game.lastMove
            queensRook == castleRookSquare(before, army, QueenSide)
            kingsRook == castleRookSquare(before, army, KingSide)
        IN  IF mv.piece = King
            THEN /\ ~isCastleAvailable(game, army, KingSide)
                 /\ ~isCastleAvailable(game, army, QueenSide)
            ELSE IF mv.piece = Rook
            THEN /\ IF mv.start = queensRook
                    THEN ~isCastleAvailable(game, army, QueenSide)
                    ELSE sameRight(game, before, army, QueenSide)
                 /\ IF mv.start = kingsRook
                    THEN ~isCastleAvailable(game, army, KingSide)
                    ELSE sameRight(game, before, army, KingSide)
            ELSE /\ sameRight(game, before, army, KingSide)
                 /\ sameRight(game, before, army, QueenSide)

\* the queen's rook left its square by a capture: the queen-side right is
\* gone and the king-side right is kept
C25_Witness ==
    /\ moved /\ game.lastMove.piece = Rook /\ game.lastMove.capture
    /\ game.lastMove.start = castleRookSquare(last.before, last.army, QueenSide)
    /\ isCastleAvailable(last.before, last.army, QueenSide)
    /\ ~isCastleAvailable(game, last.army, QueenSide)
    /\ isCastleAvailable(game, last.army, KingSide)

\* the square of the piece the last move took
capturedSquare ==
    IF game.lastMove.enPassant
    THEN Square(file(game.lastMove.end), rank(game.lastMove.start))
    ELSE game.lastMove.end

\* C26: a capture by M changes a castle right of the opponent O only when it
\* takes a rook on a castling rook's square of O, a castling rook's file of
\* O's home rank, and then it clears the right of that side and no other;
\* the capture of a rook elsewhere or of another piece leaves both rights of
\* O as they were.
C26_CaptureClearsRightOfTakenRook ==
    (moved /\ game.lastMove.capture /\ boardsExclusive(last.before)) =>
        LET before == last.before
            enemy == otherArmy(last.army)
        IN  \A castle \in Castles :
                IF /\ pieceTypeAt(before, capturedSquare) = Rook
                   /\ capturedSquare = castleRookSquare(before, enemy, castle)
                THEN ~isCastleAvailable(game, enemy, castle)
                ELSE sameRight(game, before, enemy, castle)


\* the last move took something as the claim counts it: an enemy piece stood
\* on its end square, or it is an en-passant capture
tookSomething ==
    \/ hasPieceAt(last.before, game.lastMove.end, otherArmy(last.army))
    \/ game.lastMove.enPassant

\* C27: a successful makeMove sets the half-move clock to 0 when the moving
\* piece is a pawn or the move captures (en passant included) and otherwise
\* increases it by exactly 1; a castle increases it by 1
C27_ClockResetOrIncrement ==
    moved =>
        LET before == last.before.halfMoveClock
            mv == game.lastMove
        IN  IF mv.castle THEN game.halfMoveClock = before + 1
            ELSE IF mv.piece = Pawn \/ tookSomething THEN game.halfMoveClock = 0
            ELSE game.halfMoveClock = before + 1

\* a castle from a position with a running clock
C27_Witness ==
    /\ moved /\ game.lastMove.castle
    /\ last.before.halfMoveClock > 0
    /\ game.halfMoveClock = last.before.halfMoveClock + 1

\* a capture by a piece resets a running clock
C27_WitnessCapture ==
    /\ moved /\ game.lastMove.piece # Pawn /\ tookSomething
    /\ last.before.halfMoveClock > 0
    /\ game.halfMoveClock = 0


\* the square holds the same in both positions, on every board
sameSquare(g, other, sq) ==
    /\ \A army \in Armies : (sq \in armyBoard(g, army)) = (sq \in armyBoard(other, army))
    /\ \A piece \in PieceKinds : (sq \in pieceBoard(g, piece)) = (sq \in pieceBoard(other, piece))

\* the last call was a successful makeMove of a pawn of the side to move onto
\* the en-passant target of the position
movedOntoTarget ==
    /\ moved /\ game.lastMove.piece = Pawn
    /\ standsAlone(last.before, game.lastMove.start, last.army, Pawn)
    /\ isValid(last.before.enPassantTarget)
    /\ game.lastMove.end = last.before.enPassantTarget

\* C28: a pawn of the side to move moved by makeMove onto the en-passant
\* target is treated as en passant: the enemy pawn on the end file and the
\* mover's start rank is removed, the end square, empty before the move,
\* receives the moving pawn, no other piece is removed, and lastMove has the
\* en-passant and the capture flag set
C28_EnPassantTakesPawnBeside ==
    movedOntoTarget =>
        LET before == last.before
            mv == game.lastMove
            enemy == otherArmy(last.army)
            beside == Square(file(mv.end), rank(mv.start))
        IN  /\ mv.enPassant /\ mv.capture
            /\ standsAlone(before, beside, enemy, Pawn)
            /\ isEmptySquare(game, beside)
            /\ isEmptySquare(before, mv.end)
            /\ standsAlone(game, mv.end, last.army, Pawn)
            /\ isEmptySquare(game, mv.start)
            /\ \A sq \in Squares \ {mv.start, mv.end, beside} : sameSquare(game, before, sq)

\* an en-passant capture was made
C28_Witness ==
    /\ movedOntoTarget
    /\ game.lastMove.enPassant /\ game.lastMove.capture
    /\ file(game.lastMove.start) # file(game.lastMove.end)
    /\ isEmptySquare(game, Square(file(game.lastMove.end), rank(game.lastMove.start)))

\* an en-passant capture after a double step made in the model
C28_WitnessAfterDoubleStep ==
    /\ C28_Witness /\ plies = 2
    /\ last.before.lastMove.piece = Pawn


\* the last call was a successful makeMove of a pawn of the side to move to
\* the last rank, in a position where no square holds two pieces
movedToLastRank ==
    /\ moved /\ game.lastMove.piece = Pawn
    /\ boardsExclusive(last.before)
    /\ hasPieceAt(last.before, game.lastMove.start, last.army)
    /\ rank(game.lastMove.end) = lastRank(last.army)

\* C29: when makeMove moves a pawn to the last rank, the end square holds
\* afterwards a piece of the mover's colour of the requested promotion kind,
\* or a queen when no promotion was specified, and never a pawn; the pawn is
\* removed from its start square
C29_PromotionPlacesRequestedKind ==
    movedToLastRank =>
        LET requested == last.move.promotion
            kind == IF requested = Unknown THEN Queen ELSE requested
        IN  /\ standsAlone(game, game.lastMove.end, last.army, kind)
            /\ kind # Pawn
            /\ game.lastMove.end \notin game.pawnsBoard
            /\ isEmptySquare(game, game.lastMove.start)

\* a pawn entered without a promotion has become a queen
C29_Witness ==
    /\ movedToLastRank /\ last.move.promotion = Unknown
    /\ standsAlone(game, game.lastMove.end, last.army, Queen)

\* a pawn has captured onto the last rank and become a knight
C29_WitnessKnight ==
    /\ movedToLastRank /\ last.move.promotion = Knight
    /\ hasPieceAt(last.before, game.lastMove.end, otherArmy(last.army))
    /\ standsAlone(game, game.lastMove.end, last.army, Knight)


\* C30: every successful makeMove flips activeArmy, increases halfMoveNumber
\* by exactly 1 and sets the cached repetitions to -1, and no other call
\* changes the side to move or the number, so that over any sequence of
\* successful makeMove calls the side to move strictly alternates
C30_MakeMovePassesTurn ==
    [][IF last'.op = "makeMove" /\ last'.ret
       THEN /\ game'.activeArmy = otherArmy(game.activeArmy)
            /\ game'.activeArmy # game.activeArmy
            /\ game'.halfMoveNumber = game.halfMoveNumber + 1
            /\ game'.repetitions = -1
       ELSE /\ game'.activeArmy = game.activeArmy
            /\ game'.halfMoveNumber = game.halfMoveNumber]_vars

\* two successful makeMove calls in a row: the side that moved first is to
\* move again and the number has grown by 2
C30_Witness ==
    /\ moved /\ plies = 2 /\ fenIn \in Fens
    /\ last.before.lastMove # NullMove
    /\ last.army = Black /\ game.activeArmy = White
    /\ last.before.activeArmy = Black
    /\ game.halfMoveNumber = parsed[fenIn].halfMoveNumber + 2
    /\ game.repetitions = -1


\* the last call was a successful makeMove of a castle that isCastleLegal
\* allowed, in a position where no square holds two pieces
castled ==
    /\ moved /\ game.lastMove.castle
    /\ boardsExclusive(last.before)
    /\ isCastleLegal(last.before, last.army, game.lastMove.castleSide)

\* C31: whenever isCastleLegal(army, side) is true the army's king is not in
\* check in the position, and in the position that makeMove produces from the
\* castle the king is not in check either, in standard chess and in Chess960
C31_LegalCastleKeepsKingSafe ==
    /\ \A army \in Armies, castle \in Castles :
            isCastleLegal(game, army, castle) => ~checkedBy(game, army)
    /\ castled => ~checkedBy(game, last.army)


\* C32: isCastleLegal(army, side) is false whenever a piece of either colour
\* stands strictly between the king and the castling rook, or on a square of
\* the king's path or of the rook's path, both ends included, other than the
\* squares of the king and of the castling rook themselves
C32_OccupiedPathForbidsCastle ==
    \A army \in Armies, castle \in Castles :
        (hasKing(game, army) /\ ~castlePathsEmpty(game, army, castle))
            => ~isCastleLegal(game, army, castle)

\* a castle with its right, its rook at home and no square of the king's
\* path attacked is refused because a piece stands on a path
C32_Witness ==
    \E army \in Armies, castle \in Castles :
        /\ isCastleAvailable(game, army, castle) /\ hasKing(game, army)
        /\ castleRookStands(game, army, castle)
        /\ ~castlePathsEmpty(game, army, castle)
        /\ \A sq \in kingPath(game, army, castle) : ~isAttackedBy(game, otherArmy(army), sq)
        /\ ~isCastleLegal(game, army, castle)

\* the same where nothing stands between the king and the rook: the piece
\* stands on a square that one of them crosses beyond the other
C32_WitnessBeyond ==
    \E army \in Armies, castle \in Castles :
        /\ isCastleAvailable(game, army, castle) /\ hasKing(game, army)
        /\ castleRookStands(game, army, castle)
        /\ ~castlePathsEmpty(game, army, castle)
        /\ squaresBetween(kingSquare(game, army), castleRookSquare(game, army, castle))
                \cap (game.whitePositionBoard \cup game.blackPositionBoard) = {}
        /\ ~isCastleLegal(game, army, castle)


\* C33: isChecked(army) changes nothing in the position except lastMove.check,
\* which it sets to the value it returns; the boards, the castle rights, the
\* en-passant target, the clocks, the side to move and the other fields of
\* lastMove are what they were
C33_IsCheckedSetsCheckFlagOnly ==
    last.op = "isChecked" =>
        /\ game.lastMove.check = last.ret
        /\ game.lastMove = [last.before.lastMove EXCEPT !.check = last.ret]
        /\ game = [last.before EXCEPT !.lastMove = game.lastMove]

\* isChecked found the army in check after a move and set the flag, which
\* was clear
C33_Witness ==
    /\ last.op = "isChecked" /\ last.ret /\ plies >= 1
    /\ ~last.before.lastMove.check /\ game.lastMove.check
    /\ isValid(game.lastMove.start)

\* isChecked found the army safe and left the flag clear
C33_WitnessSafe ==
    /\ last.op = "isChecked" /\ ~last.ret /\ plies >= 1
    /\ ~game.lastMove.check /\ game = last.before


\* what the calls cs leave of g, and what they return, when nothing else
\* runs: the position after them and the values they returned
RECURSIVE alone(_, _)
alone(g, cs) ==
    IF cs = <<>> THEN [game |-> g, rets |-> <<>>]
    ELSE LET call == Head(cs)
             done == IF call.op = "makeMove"
                     THEN makeMove(g, call.move, chess960)
                     ELSE isChecked(g, call.army)
             ret == IF call.op = "makeMove" THEN done.ok ELSE done.ret
             rest == alone(done.game, Tail(cs))
         IN  [game |-> rest.game, rets |-> <<ret>> \o rest.rets]

C35_RightsNeverComeBack ==
    [][last'.op # "setFen" =>
        \A army \in Armies, castle \in Castles :
            ~isCastleAvailable(game, army, castle)
                => ~isCastleAvailable(game', army, castle)]_vars

\* a right that the FEN gave was lost with the first move and is still
\* false after the second
C35_Witness ==
    /\ moved /\ plies = 2 /\ fenIn \in Fens
    /\ \E army \in Armies, castle \in Castles :
        /\ isCastleAvailable(parsed[fenIn], army, castle)
        /\ ~isCastleAvailable(last.before, army, castle)
        /\ ~isCastleAvailable(game, army, castle)
        /\ castleRookStands(game, army, castle)


\* the full-move number of a FEN string with six fields
fullMoveNumber(fen) == toInt(split(fen, " ")[6])

\* C36: for a position loaded by setFen with the full-move number N and then
\* advanced by makeMove, the full-move number that stateOfGameToFen(true)
\* emits is unchanged after a move of White and one more after a move of
\* Black, whichever side was to move in the FEN: it is N plus the number of
\* moves Black has made
C36_FullMoveNumberCountsBlackMoves ==
    (/\ last.op = "stateOfGameToFen" /\ last.ret /\ last.fen # Aborted
     /\ plies >= 1 /\ fenIn \in Fens /\ Len(split(fenIn, " ")) = 6) =>
        LET blackMoves == IF parsed[fenIn].activeArmy = Black
                          THEN (plies + 1) \div 2 ELSE plies \div 2
        IN  fullMoveNumber(last.fen) = fullMoveNumber(fenIn) + blackMoves


\* C37: makeMove succeeds only for a move whose start square holds a piece of
\* the side to move: when the start square is empty or holds an enemy piece
\* it returns false and leaves the position unchanged
C37_StartMustHoldMoversPiece ==
    (/\ last.op = "makeMove" /\ isValid(last.move.start)
     /\ ~hasPieceAt(last.before, last.move.start, last.army)) =>
        (~last.ret /\ game = last.before)


\* C38: makeMove never changes fileOfKingsRook or fileOfQueensRook: they keep
\* the values the last setFen set through every move, castles, rook moves,
\* rook captures and moves that clear the castle right included
C38_RookFilesKeptByMoves ==
    fenIn \in Fens =>
        /\ game.fileOfKingsRook = parsed[fenIn].fileOfKingsRook
        /\ game.fileOfQueensRook = parsed[fenIn].fileOfQueensRook

\* after a castle no army has a king-side right left, and the king's rook's
\* file is still the h file
C38_Witness ==
    /\ moved /\ game.lastMove.castle /\ game.lastMove.castleSide = KingSide
    /\ \A army \in Armies : ~isCastleAvailable(game, army, KingSide)
    /\ isCastleAvailable(last.before, last.army, KingSide)
    /\ game.fileOfKingsRook = 7

\* the same after the capture of a castling rook on the b file
C38_WitnessCapture ==
    /\ moved /\ game.lastMove.capture /\ ~game.lastMove.castle
    /\ pieceTypeAt(last.before, game.lastMove.end) = Rook
    /\ \A army \in Armies : ~isCastleAvailable(game, army, QueenSide)
    /\ \E army \in Armies : isCastleAvailable(last.before, army, QueenSide)
    /\ game.fileOfQueensRook = 1


\* the number of squares on which the army has a piece
piecesOfArmy(g, army) == Cardinality(armyBoard(g, army))

\* C39: over any sequence of successful makeMove calls that apply moves
\* pseudoLegalMoves emitted, the number of pieces on the board goes down by
\* exactly 1 when the move captures, en passant included, and is unchanged
\* otherwise; castles and promotions keep it, and neither side's number of
\* pieces ever grows
C39_CaptureTakesOnePiece ==
    (moved /\ emittedOnly) =>
        LET before == last.before
            enemy == otherArmy(last.army)
            taken == IF tookSomething THEN 1 ELSE 0
            total(g) == Cardinality(g.whitePositionBoard \cup g.blackPositionBoard)
            kinds(g) == piecesOf(g, King) + piecesOf(g, Queen) + piecesOf(g, Rook)
                        + piecesOf(g, Bishop) + piecesOf(g, Knight) + piecesOf(g, Pawn)
        IN  /\ total(game) = total(before) - taken
            /\ kinds(game) = kinds(before) - taken
            /\ piecesOfArmy(game, last.army) = piecesOfArmy(before, last.army)
            /\ piecesOfArmy(game, enemy) = piecesOfArmy(before, enemy) - taken
            /\ (game.lastMove.castle \/ game.lastMove.promotion # Unknown)
                    => piecesOfArmy(game, last.army) = piecesOfArmy(before, last.army)
            /\ game.lastMove.castle => taken = 0

\* an en-passant capture, the second emitted move, took one piece
C39_Witness ==
    /\ moved /\ emittedOnly /\ plies = 2
    /\ game.lastMove.enPassant /\ tookSomething
    /\ piecesOfArmy(game, otherArmy(last.army))
            = piecesOfArmy(last.before, otherArmy(last.army)) - 1

\* a promotion with capture took one piece and kept the mover's number
C39_WitnessPromotion ==
    /\ moved /\ emittedOnly
    /\ game.lastMove.promotion # Unknown /\ tookSomething
    /\ piecesOfArmy(game, last.army) = piecesOfArmy(last.before, last.army)

\* a Chess960 castle kept both numbers
C39_WitnessCastle ==
    /\ moved /\ emittedOnly /\ chess960
    /\ game.lastMove.castle /\ ~tookSomething
    /\ piecesOfArmy(game, last.army) = piecesOfArmy(last.before, last.army)
    /\ piecesOfArmy(game, last.army) >= 2


\* C40: every move pseudoLegalMoves emits for a position is accepted by
\* makeMove on that position, whether UCI_Chess960 is true or false, and its
\* start square holds a piece of the side to move of the kind the move
\* records
C40_EmittedMovesAreAccepted ==
    (~aborted /\ pseudoLegalMovesDefined(game)) =>
        LET emitted == emittedMoves(game)
            army == game.activeArmy
        IN  \A mv \in emitted :
                /\ \A isChess960 \in BOOLEAN :
                    /\ ~fillOutMoveUnreachable(game, army, mv, isChess960)
                    /\ makeMove(game, mv, isChess960).ok
                /\ hasPieceAt(game, mv.start, army)
                /\ mv.start \in pieceBoard(game, mv.piece)
                /\ mv.piece # Unknown

\* with UCI_Chess960, an emitted castle, the king onto its own rook, was
\* accepted
C40_Witness ==
    /\ moved /\ emittedOnly /\ chess960 /\ plies >= 1
    /\ game.lastMove.castle
    /\ last.move \in emittedMoves(last.before)
    /\ last.move.end \in armyBoard(last.before, last.army) \cap last.before.rooksBoard

\* an emitted promotion was accepted as the second move
C40_WitnessPromotion ==
    /\ moved /\ emittedOnly /\ plies = 2
    /\ last.move.promotion = Rook
    /\ last.move \in emittedMoves(last.before)

=============================================================================
